---- MODULE Spec2Model ----
(***************************************************************************)
(* Assessment engine of the stress-management application:                 *)
(* AnxietyTestService (scoring, percentage, interpretation, result         *)
(* creation) on top of the anxiety_tests / anxiety_test_questions /        *)
(* anxiety_test_results tables; StressService on the stress_logs table;    *)
(* the weekly average and the anxiety warning of the dashboard; the RTL    *)
(* text shapers and the report exports of PDFService and ExcelService;     *)
(* the question dialog of the anxiety test and the exercise timer.         *)
(*                                                                         *)
(* Representation choices                                                  *)
(*  - The TEXT column interpretation_rules is a record [text, doc]:        *)
(*    text = "None" (NULL), "empty" (''), "garbage" (not JSON) or "json"   *)
(*    (valid JSON whose parsed value is doc).                              *)
(*  - A parsed JSON value is a record with a type tag; a key that is       *)
(*    missing from an object has type "absent".                            *)
(*  - A call of a service method leaves its arguments, its return value,   *)
(*    the exception that escaped it (if any) and the message it logged in  *)
(*    the variable call; prev is the call before it.                       *)
(*  - A percentage is kept in hundredths (12.5 is 1250).                   *)
(*  - A date is a day number; today is the day date('now') returns.        *)
(*  - A text is the sequence of its code points; the presentation form     *)
(*    that arabic_reshaper puts in place of the letter c is written -c.    *)
(*  - env tells which optional libraries and fonts the process found.      *)
(*  - A document is the sequence of its blocks (spacers left out).         *)
(*  - destination is the file at the export path: absent, a whole          *)
(*    document, or the part a failed write left there.                     *)
(*  - dialog and timer are the open AnxietyTestDialog and                  *)
(*    ExerciseTimerDialog (or none); sessions is the exercise_sessions     *)
(*    table.                                                               *)
(***************************************************************************)
EXTENDS Integers, Sequences, FiniteSets, TLC

VARIABLES tests, questions, results, next_id, stress_logs, today, env, destination, dialog, timer, sessions, call, prev

vars == <<tests, questions, results, next_id, stress_logs, today, env, destination, dialog,
          timer, sessions, call, prev>>

(***************************************************************************)
(* Bounds                                                                  *)
(***************************************************************************)
MaxLen == 3          \* longest exhaustively enumerated answer list
MaxThresholds == 2   \* longest exhaustively enumerated threshold list
MaxScoreArg == 41    \* largest score / max_score argument
MaxResults == 2      \* rows ever inserted into anxiety_test_results
MaxQuestionNumber == 4  \* largest question_number of a stored question
MaxLogs == 2         \* rows ever inserted into stress_logs
MaxTaken == 4        \* tests taken before the dashboard is looked at
MaxText == 2         \* longest exhaustively enumerated text
MaxRows == 2         \* most stress logs / anxiety results in a report
MaxQuestions == 3    \* most questions of the test behind a question dialog
MaxOption == 1       \* largest option id of a question of the dialog
MaxSeconds == 121    \* longest run of the exercise timer, in seconds
MaxAnswers == 2      \* most questions of a test answered out of range

(***************************************************************************)
(* JSON values                                                             *)
(***************************************************************************)
JAbsent == [type |-> "absent", n |-> 0, s |-> "", items |-> {}]
JInt(n) == [type |-> "int", n |-> n, s |-> "", items |-> {}]
JStr(s) == [type |-> "str", n |-> 0, s |-> s, items |-> {}]
JIntList(S) == [type |-> "list", n |-> 0, s |-> "", items |-> S]

\* one element of the "thresholds" list
Threshold(m, i) == [type |-> "object", max_score |-> m, interpretation |-> i]
NotAnObject == [type |-> "int", max_score |-> JAbsent, interpretation |-> JAbsent]

ThresholdsAbsent == [type |-> "absent", items |-> <<>>]
ThresholdsList(l) == [type |-> "list", items |-> l]
ThresholdsNotAList == [type |-> "int", items |-> <<>>]

\* a parsed rule document
RuleObject(m, rq, mo, th) ==
    [type |-> "object", method |-> m, reverse_questions |-> rq,
     max_option_value |-> mo, thresholds |-> th]
RuleNonObject(t) ==
    [type |-> t, method |-> JAbsent, reverse_questions |-> JAbsent,
     max_option_value |-> JAbsent, thresholds |-> ThresholdsAbsent]

\* the stored TEXT column
RuleNone == [text |-> "None", doc |-> RuleNonObject("null")]
RuleEmpty == [text |-> "empty", doc |-> RuleNonObject("null")]
RuleGarbage == [text |-> "garbage", doc |-> RuleNonObject("null")]
RuleJson(d) == [text |-> "json", doc |-> d]

(***************************************************************************)
(* Seeded test definitions (seed_database.py)                              *)
(***************************************************************************)
PSS10Thresholds ==
    ThresholdsList(<<Threshold(JInt(13), JStr("low")),
                     Threshold(JInt(26), JStr("moderate")),
                     Threshold(JInt(40), JStr("high"))>>)
PSS10Rule ==
    RuleJson(RuleObject(JStr("reverse"), JIntList({3, 5}), JInt(3), PSS10Thresholds))

PSS5Thresholds ==
    ThresholdsList(<<Threshold(JInt(7), JStr("low")),
                     Threshold(JInt(11), JStr("moderate")),
                     Threshold(JInt(20), JStr("high"))>>)
PSS5Rule ==
    RuleJson(RuleObject(JStr("reverse"), JIntList({3, 4}), JInt(3), PSS5Thresholds))

(***************************************************************************)
(* Outcome of a call: the returned value (an integer in ret, a string in   *)
(* text, or None) or the exception that escaped, and the message passed    *)
(* to logger.error                                                         *)
(***************************************************************************)
Return(v) == [exc |-> "none", ret |-> v, text |-> "", none |-> FALSE, log |-> ""]
ReturnLogged(v, msg) == [exc |-> "none", ret |-> v, text |-> "", none |-> FALSE, log |-> msg]
ReturnText(t) == [exc |-> "none", ret |-> 0, text |-> t, none |-> FALSE, log |-> ""]
ReturnTextLogged(t, msg) == [exc |-> "none", ret |-> 0, text |-> t, none |-> FALSE, log |-> msg]
ReturnNone(msg) == [exc |-> "none", ret |-> 0, text |-> "", none |-> TRUE, log |-> msg]
Raise(e) == [exc |-> e, ret |-> 0, text |-> "", none |-> FALSE, log |-> ""]

\* json.loads on the stored text
json_loads(rules) ==
    IF rules.text = "json" THEN [exc |-> "none", value |-> rules.doc]
    ELSE [exc |-> "JSONDecodeError", value |-> RuleNonObject("null")]

(***************************************************************************)
(* calculate_score                                                         *)
(***************************************************************************)
RECURSIVE sum_skips_last(_)
sum_skips_last(answers) ==
    IF Len(answers) <= 1 THEN 0 ELSE Head(answers) + sum_skips_last(Tail(answers))
RECURSIVE sum(_)
sum(answers) ==
    IF answers = <<>> THEN 0 ELSE Head(answers) + sum(Tail(answers))

\* rules_data.get('method', 'sum')
get_method(rules_data) ==
    IF rules_data.method.type = "absent" THEN JStr("sum") ELSE rules_data.method

\* rules_data.get('reverse_questions', [])
get_reverse_questions(rules_data) ==
    IF rules_data.reverse_questions.type = "absent" THEN JIntList({})
    ELSE rules_data.reverse_questions

\* rules_data.get('max_option_value', 3)
get_max_option(rules_data) ==
    IF rules_data.max_option_value.type = "absent" THEN JInt(3)
    ELSE rules_data.max_option_value

\* question number of the answer at 1-based position pos (enumerate gives pos - 1)
question_num_zero_based(pos) == pos - 1
question_num(pos) == (pos - 1) + 1

\* the for loop of the 'reverse' branch, from 1-based position pos on
RECURSIVE reverse_loop(_, _, _, _, _)
reverse_loop(answers, pos, score, reverse_questions, max_option) ==
    IF pos > Len(answers) THEN Return(score)
    ELSE IF reverse_questions.type # "list" THEN Raise("TypeError")
    ELSE IF question_num(pos) \in reverse_questions.items
         THEN IF max_option.type # "int" THEN Raise("TypeError")
              ELSE reverse_loop(answers, pos + 1, score + (max_option.n - answers[pos]),
                                reverse_questions, max_option)
         ELSE reverse_loop(answers, pos + 1, score + answers[pos],
                           reverse_questions, max_option)

\* the body of the try block, rules_data being any parsed JSON value
score_by_method_swapped(rules_data, answers) ==
    IF rules_data.type # "object" THEN Raise("AttributeError")
    ELSE IF get_method(rules_data) = JStr("reverse") THEN Return(sum(answers))
    ELSE IF get_method(rules_data) = JStr("sum")
         THEN reverse_loop(answers, 1, 0, get_reverse_questions(rules_data),
                           get_max_option(rules_data))
    ELSE Return(sum(answers))
score_by_method(rules_data, answers) ==
    IF rules_data.type # "object" THEN Raise("AttributeError")
    ELSE IF get_method(rules_data) = JStr("sum") THEN Return(sum(answers))
    ELSE IF get_method(rules_data) = JStr("reverse")
         THEN reverse_loop(answers, 1, 0, get_reverse_questions(rules_data),
                           get_max_option(rules_data))
    ELSE Return(sum(answers))

\* everything after the answer-count check
score_of_rule_parse_error_zero(rules, answers) ==
    IF rules.text \in {"None", "empty"} THEN Return(sum(answers))
    ELSE IF json_loads(rules).exc = "JSONDecodeError"
         THEN ReturnLogged(0, "Error parsing interpretation rules")
    ELSE score_by_method(json_loads(rules).value, answers)
score_of_rule(rules, answers) ==
    IF rules.text \in {"None", "empty"} THEN Return(sum(answers))
    ELSE IF json_loads(rules).exc = "JSONDecodeError"
         THEN ReturnLogged(sum(answers), "Error parsing interpretation rules")
    ELSE score_by_method(json_loads(rules).value, answers)

calculate_score_unchecked(test, test_questions, answers) ==
    score_of_rule(test.interpretation_rules, answers)
calculate_score(test, test_questions, answers) ==
    IF Len(answers) # Len(test_questions)
    THEN ReturnLogged(0, "Answer count mismatch")
    ELSE score_of_rule(test.interpretation_rules, answers)

(***************************************************************************)
(* calculate_percentage                                                    *)
(***************************************************************************)
\* num/den rounded to the nearest integer, ties to even (Python's round)
round_floor(num, den) ==
    IF den > 0 THEN num \div den ELSE (-num) \div (-den)
round(num, den) ==
    LET n == IF den > 0 THEN num ELSE -num
        d == IF den > 0 THEN den ELSE -den
        q == n \div d
        r == n % d
    IN  IF 2 * r < d THEN q
        ELSE IF 2 * r > d THEN q + 1
        ELSE IF q % 2 = 0 THEN q ELSE q + 1

\* round((score / max_score) * 100, 2), in hundredths
calculate_percentage_clamped(score, max_score) ==
    IF max_score = 0 \/ score < 0 THEN 0
    ELSE IF score > max_score THEN 10000
    ELSE round(score * 10000, max_score)
calculate_percentage(score, max_score) ==
    IF max_score = 0 THEN 0
    ELSE round(score * 10000, max_score)

(***************************************************************************)
(* get_interpretation                                                      *)
(***************************************************************************)
\* key=lambda x: x.get('max_score', 0)
sort_key(x) == IF x.max_score.type = "absent" THEN 0 ELSE x.max_score.n

\* position of x in an already sorted list: behind every element whose key
\* is not smaller (the sort is stable, also with reverse=True)
RECURSIVE insert_ascending(_, _)
insert_ascending(sorted, x) ==
    IF sorted = <<>> THEN <<x>>
    ELSE IF sort_key(Head(sorted)) <= sort_key(x)
         THEN <<Head(sorted)>> \o insert_ascending(Tail(sorted), x)
         ELSE <<x>> \o sorted
RECURSIVE insert_descending(_, _)
insert_descending(sorted, x) ==
    IF sorted = <<>> THEN <<x>>
    ELSE IF sort_key(Head(sorted)) >= sort_key(x)
         THEN <<Head(sorted)>> \o insert_descending(Tail(sorted), x)
         ELSE <<x>> \o sorted

\* thresholds.sort(key=..., reverse=True) on integer keys
RECURSIVE sort_thresholds(_)
sort_thresholds(items) ==
    IF items = <<>> THEN <<>>
    ELSE insert_descending(sort_thresholds(SubSeq(items, 1, Len(items) - 1)),
                           items[Len(items)])

\* the for loop over the sorted thresholds
RECURSIVE first_match(_, _)
first_match(thresholds, score) ==
    IF thresholds = <<>> THEN ReturnText("")
    ELSE LET threshold == Head(thresholds)
             limit == IF threshold.max_score.type = "absent" THEN JInt(999)
                      ELSE threshold.max_score
         IN  IF limit.type # "int" THEN Raise("TypeError")
             ELSE IF score <= limit.n
                  THEN ReturnText(IF threshold.interpretation.type = "absent" THEN ""
                                  ELSE threshold.interpretation.s)
             ELSE first_match(Tail(thresholds), score)

KeyTypes(items) ==
    {IF items[i].max_score.type = "absent" THEN "int" ELSE items[i].max_score.type :
        i \in 1..Len(items)}

\* the body of the try block, rules_data being any parsed JSON value
interpret_rules_data(rules_data, score) ==
    IF rules_data.type # "object" THEN Raise("AttributeError")
    ELSE LET thresholds == IF rules_data.thresholds.type = "absent"
                           THEN ThresholdsList(<<>>) ELSE rules_data.thresholds
             items == thresholds.items
         IN  IF thresholds.type # "list" THEN Raise("AttributeError")
             \* the key function is applied to every element before any comparison
             ELSE IF \E i \in 1..Len(items) : items[i].type # "object"
                  THEN Raise("AttributeError")
             \* keys of different types cannot be ordered
             ELSE IF Len(items) >= 2 /\ Cardinality(KeyTypes(items)) > 1
                  THEN Raise("TypeError")
             \* keys that are all strings sort without error; the first
             \* comparison with the score then raises, whatever their order
             ELSE IF KeyTypes(items) = {"int"}
                  THEN first_match(sort_thresholds(items), score)
             ELSE first_match(items, score)

get_interpretation(test, score) ==
    LET rules == test.interpretation_rules
    IN  IF rules.text \in {"None", "empty"} THEN ReturnText("")
        ELSE IF json_loads(rules).exc = "JSONDecodeError"
             THEN ReturnTextLogged("", "Error parsing interpretation rules")
        ELSE interpret_rules_data(json_loads(rules).value, score)

(***************************************************************************)
(* Stored results (AnxietyRepository)                                      *)
(***************************************************************************)
\* json.dumps(answers): the text stored in the answers column
json_dumps(answers) == [text |-> "json", value |-> answers]

ResultRow(id, user_id, test_id, score, max_score, percentage, interpretation, answers) ==
    [id |-> id, user_id |-> user_id, test_id |-> test_id, score |-> score,
     max_score |-> max_score, percentage |-> percentage,
     interpretation |-> interpretation, answers |-> json_dumps(answers)]

\* create_test_result of the service: the outcome and the table afterwards;
\* db_error is the case in which the INSERT raises
create_test_result_interpreted(rows, id, user_id, test_id, answers, db_error) ==
    IF test_id \notin DOMAIN tests
    THEN [out |-> ReturnNone("Test not found"), rows |-> rows]
    ELSE LET test == tests[test_id]
             score == calculate_score(test, questions[test_id], answers)
             interpretation == get_interpretation(test, score.ret)
         IN  IF score.exc # "none" THEN [out |-> Raise(score.exc), rows |-> rows]
             ELSE IF interpretation.exc # "none"
                  THEN [out |-> Raise(interpretation.exc), rows |-> rows]
             ELSE IF interpretation.text = ""
                  THEN [out |-> ReturnNone("No interpretation"), rows |-> rows]
             ELSE IF db_error
                  THEN [out |-> ReturnNone("Error creating test result"), rows |-> rows]
             ELSE [out |-> Return(id),
                   rows |-> [i \in DOMAIN rows \cup {id} |->
                               IF i = id
                               THEN ResultRow(id, user_id, test_id, score.ret, test.max_score,
                                              calculate_percentage(score.ret, test.max_score),
                                              interpretation.text, answers)
                               ELSE rows[i]]]
create_test_result(rows, id, user_id, test_id, answers, db_error) ==
    IF test_id \notin DOMAIN tests
    THEN [out |-> ReturnNone("Test not found"), rows |-> rows]
    ELSE LET test == tests[test_id]
             score == calculate_score(test, questions[test_id], answers)
             max_score == test.max_score
             percentage == calculate_percentage(score.ret, max_score)
             interpretation == get_interpretation(test, score.ret)
         IN  IF score.exc # "none" THEN [out |-> Raise(score.exc), rows |-> rows]
             ELSE IF interpretation.exc # "none"
                  THEN [out |-> Raise(interpretation.exc), rows |-> rows]
             ELSE IF db_error
                  THEN [out |-> ReturnNone("Error creating test result"), rows |-> rows]
             ELSE [out |-> Return(id),
                   rows |-> [i \in DOMAIN rows \cup {id} |->
                               IF i = id
                               THEN ResultRow(id, user_id, test_id, score.ret, max_score,
                                              percentage, interpretation.text, answers)
                               ELSE rows[i]]]

\* delete_result: True (1) when a row was deleted, False (0) otherwise
delete_result_up_to(rows, result_id) ==
    [out |-> Return(IF result_id \in DOMAIN rows THEN 1 ELSE 0),
     rows |-> [i \in {j \in DOMAIN rows : j > result_id} |-> rows[i]]]
delete_result(rows, result_id) ==
    [out |-> Return(IF result_id \in DOMAIN rows THEN 1 ELSE 0),
     rows |-> [i \in DOMAIN rows \ {result_id} |-> rows[i]]]

\* json.loads of the answers column as the repository reads a row back
loaded_answers(stored) == IF stored.text = "json" THEN stored.value ELSE <<>>

\* get_result_by_id: the row with its answers parsed
get_result_by_id(rows, result_id) ==
    [rows[result_id] EXCEPT !.answers = loaded_answers(rows[result_id].answers)]

(***************************************************************************)
(* Stress logs (StressService on StressRepository)                         *)
(***************************************************************************)
STRESS_LEVEL_MIN == 1
STRESS_LEVEL_MAX == 10

StressLog(id, user_id, stress_level, date) ==
    [id |-> id, user_id |-> user_id, stress_level |-> stress_level, date |-> date]

\* the stress_logs table: its rows by id and the AUTOINCREMENT sequence
NoLogs == [seq |-> 0, rows |-> <<>>]

\* create_log: the returned id (None when the level is rejected or the INSERT
\* raises) and the table afterwards
create_log_unvalidated(logs, user_id, stress_level, log_date, db_error) ==
    IF db_error THEN [out |-> ReturnNone("Error creating stress log"), logs |-> logs]
    ELSE LET id == logs.seq + 1
         IN  [out |-> Return(id),
              logs |-> [seq |-> id,
                        rows |-> [i \in DOMAIN logs.rows \cup {id} |->
                                    IF i = id
                                    THEN StressLog(id, user_id, stress_level, log_date)
                                    ELSE logs.rows[i]]]]
create_log(logs, user_id, stress_level, log_date, db_error) ==
    IF ~(STRESS_LEVEL_MIN <= stress_level /\ stress_level <= STRESS_LEVEL_MAX)
    THEN [out |-> ReturnNone("Invalid stress level"), logs |-> logs]
    ELSE IF db_error
         THEN [out |-> ReturnNone("Error creating stress log"), logs |-> logs]
    ELSE LET id == logs.seq + 1
         IN  [out |-> Return(id),
              logs |-> [seq |-> id,
                        rows |-> [i \in DOMAIN logs.rows \cup {id} |->
                                    IF i = id
                                    THEN StressLog(id, user_id, stress_level, log_date)
                                    ELSE logs.rows[i]]]]

\* update_log(log_id, **kwargs): kwargs maps some of "stress_level", "date" to
\* the new values; True (1) when a row was updated, False (0) otherwise
update_log(logs, log_id, kwargs) ==
    IF "stress_level" \in DOMAIN kwargs
       /\ ~(STRESS_LEVEL_MIN <= kwargs["stress_level"]
            /\ kwargs["stress_level"] <= STRESS_LEVEL_MAX)
    THEN [out |-> ReturnLogged(0, "Invalid stress level"), logs |-> logs]
    ELSE IF DOMAIN kwargs = {} \/ log_id \notin DOMAIN logs.rows
         THEN [out |-> Return(0), logs |-> logs]
    ELSE [out |-> Return(1),
          logs |-> [logs EXCEPT !.rows[log_id] =
                      [id |-> @.id, user_id |-> @.user_id,
                       stress_level |-> IF "stress_level" \in DOMAIN kwargs
                                        THEN kwargs["stress_level"] ELSE @.stress_level,
                       date |-> IF "date" \in DOMAIN kwargs
                                THEN kwargs["date"] ELSE @.date]]]

\* delete_log: True (1) when a row was deleted, False (0) otherwise
delete_log(logs, log_id) ==
    [out |-> Return(IF log_id \in DOMAIN logs.rows THEN 1 ELSE 0),
     logs |-> [logs EXCEPT !.rows = [i \in DOMAIN logs.rows \ {log_id} |-> logs.rows[i]]]]

\* an Optional[float] average, kept exactly as total / count
NoAverage == [none |-> TRUE, total |-> 0, count |-> 0]
Average(total, count) == [none |-> FALSE, total |-> total, count |-> count]

RECURSIVE SumLevels(_, _)
SumLevels(rows, ids) ==
    IF ids = {} THEN 0
    ELSE LET i == CHOOSE j \in ids : TRUE
         IN  rows[i].stress_level + SumLevels(rows, ids \ {i})

\* SELECT AVG(stress_level) ... WHERE user_id = ? AND date >= date('now', '-days days')
get_average_by_user(logs, now, user_id, days) ==
    LET selected == {i \in DOMAIN logs.rows :
                        /\ logs.rows[i].user_id = user_id
                        /\ logs.rows[i].date >= now - days}
    IN  IF selected = {} THEN NoAverage
        ELSE Average(SumLevels(logs.rows, selected), Cardinality(selected))

get_average_stress(logs, now, user_id, days) == get_average_by_user(logs, now, user_id, days)

(***************************************************************************)
(* Dashboard (DashboardScreen.refresh)                                     *)
(***************************************************************************)
\* days=7 of the weekly average, limit=3 and the 50% of the anxiety warning
WeeklyDays == 7
WarningResults == 3
WarningPercent == 50

\* the text of weekly_avg_label: f"{weekly_avg:.1f}/10" (in tenths) when
\* weekly_avg is truthy, the no-data message otherwise
weekly_avg_label(weekly_avg) ==
    IF ~weekly_avg.none /\ weekly_avg.total # 0
    THEN [text |-> "average", tenths |-> round(weekly_avg.total * 10, weekly_avg.count)]
    ELSE [text |-> "message_no_data", tenths |-> 0]

\* rows with the given ids, ORDER BY created_at DESC; a row is created at a
\* later time than every row with a smaller id
RECURSIVE newest_first(_, _)
newest_first(rows, ids) ==
    IF ids = {} THEN <<>>
    ELSE LET m == CHOOSE i \in ids : \A j \in ids : j <= i
         IN  <<rows[m]>> \o newest_first(rows, ids \ {m})

\* get_results_by_user(user_id, limit); limit 0 stands for None
get_results_by_user_unlimited(rows, user_id, limit) ==
    newest_first(rows, {i \in DOMAIN rows : rows[i].user_id = user_id})
get_results_by_user(rows, user_id, limit) ==
    LET all == newest_first(rows, {i \in DOMAIN rows : rows[i].user_id = user_id})
    IN  IF limit # 0 /\ Len(all) > limit THEN SubSeq(all, 1, limit) ELSE all

\* _check_anxiety_warning: whether an average was computed, the average as
\* total / count (hundredths of a percent) and whether the warning box is shown
NoWarning == [computed |-> FALSE, total |-> 0, count |-> 0, warning |-> FALSE]
check_anxiety_warning(rows, user_id) ==
    LET fetched == get_results_by_user(rows, user_id, WarningResults)
        percentages == [i \in 1..Len(fetched) |-> fetched[i].percentage]
    IN  IF Len(fetched) < WarningResults THEN NoWarning
        ELSE IF percentages = <<>> THEN NoWarning
        ELSE [computed |-> TRUE, total |-> sum(percentages), count |-> Len(percentages),
              warning |-> sum(percentages) > WarningPercent * 100 * Len(percentages)]

(***************************************************************************)
(* RTL text shaping (_prepare_rtl_text of PDFService and ExcelService)     *)
(***************************************************************************)
\* what the imports and the font registration found
Environment(reportlab, openpyxl, rtl_support, has_persian_font) ==
    [reportlab |-> reportlab, openpyxl |-> openpyxl, RTL_SUPPORT |-> rtl_support,
     has_persian_font |-> has_persian_font]
Installed == Environment(TRUE, TRUE, TRUE, TRUE)

\* any('\u0600' <= char <= '\u06FF' or '\u0750' <= char <= '\u077F' for char in text)
has_rtl(text) ==
    \E i \in DOMAIN text :
        \/ 1536 <= text[i] /\ text[i] <= 1791
        \/ 1872 <= text[i] /\ text[i] <= 1919

\* arabic_reshaper.reshape: every letter of the Arabic block gets its
\* presentation form, every other character stays
arabic_reshaper_reshape(text) ==
    [i \in DOMAIN text |->
        IF 1536 <= text[i] /\ text[i] <= 1791 THEN -text[i] ELSE text[i]]

\* bidi_algorithm.get_display in a left-to-right paragraph: every maximal run
\* of right-to-left characters (presentation forms and the blocks U+0590 to
\* U+08FF) is put in visual order, that is reversed
right_to_left(c) == c < 0 \/ (1424 <= c /\ c <= 2303)
Reverse(text) == [i \in DOMAIN text |-> text[Len(text) + 1 - i]]
RECURSIVE get_display(_)
get_display(text) ==
    IF text = <<>> THEN <<>>
    ELSE IF ~right_to_left(Head(text)) THEN <<Head(text)>> \o get_display(Tail(text))
    ELSE LET n == CHOOSE k \in 1..Len(text) :
                     /\ \A i \in 1..k : right_to_left(text[i])
                     /\ k = Len(text) \/ ~right_to_left(text[k + 1])
         IN  Reverse(SubSeq(text, 1, n)) \o get_display(SubSeq(text, n + 1, Len(text)))

\* outcome of a shaper: the returned text, the warning it logged, or the
\* exception that escaped it
Shaped(text) == [exc |-> "none", text |-> text, log |-> ""]
ShapedLogged(text, msg) == [exc |-> "none", text |-> text, log |-> msg]
ShapingRaised(e) == [exc |-> e, text |-> <<>>, log |-> ""]

\* PDFService._prepare_rtl_text(text); failing names the library call that
\* raises ("reshape", "get_display") or is "none"
pdf_prepare_rtl_text_uncaught(e, text, failing) ==
    IF text = <<>> THEN Shaped(text)
    ELSE IF e.RTL_SUPPORT /\ e.has_persian_font /\ has_rtl(text)
         THEN IF failing \in {"reshape", "get_display"}
              THEN ShapingRaised(failing)
              ELSE Shaped(get_display(arabic_reshaper_reshape(text)))
    ELSE Shaped(text)
pdf_prepare_rtl_text(e, text, failing) ==
    IF text = <<>> THEN Shaped(text)
    ELSE IF e.RTL_SUPPORT /\ e.has_persian_font /\ has_rtl(text)
         THEN IF failing \in {"reshape", "get_display"}
              THEN ShapedLogged(text, "Error processing RTL text")
              ELSE Shaped(get_display(arabic_reshaper_reshape(text)))
    ELSE Shaped(text)

\* ExcelService._prepare_rtl_text(text, reshape)
excel_prepare_rtl_text_ignores_flag(e, text, reshape, failing) ==
    IF text = <<>> THEN Shaped(text)
    ELSE IF e.RTL_SUPPORT /\ has_rtl(text)
         THEN IF failing = "reshape"
              THEN ShapedLogged(text, "Error processing RTL text")
              ELSE Shaped(arabic_reshaper_reshape(text))
    ELSE Shaped(text)
excel_prepare_rtl_text(e, text, reshape, failing) ==
    IF text = <<>> THEN Shaped(text)
    ELSE IF reshape /\ e.RTL_SUPPORT /\ has_rtl(text)
         THEN IF failing = "reshape"
              THEN ShapedLogged(text, "Error processing RTL text")
              ELSE Shaped(arabic_reshaper_reshape(text))
    ELSE Shaped(text)

(***************************************************************************)
(* Report export (PDFService, ExcelService)                                *)
(***************************************************************************)
\* the translated labels are Persian words; two letters stand for each
ReportsLabel == <<1711, 1586>>
HistoryLabel == <<1578, 1575>>
NoDataLabel == <<1583, 1575>>
NotesLabel == <<1740, 1575>>
ActivityLabel == <<1601, 1593>>
SleepLabel == <<1582, 1576>>
LevelLabel == <<1587, 1591>>
DateLabel == <<1578, 1582>>
InterpretationLabel == <<1578, 1601>>
PercentageLabel == <<1583, 1585>>
MaxScoreLabel == <<1581, 1583>>
ScoreLabel == <<1575, 1605>>
TestNameLabel == <<1606, 1575>>

\* the text put for a missing value and the mark of a cut text
Dash == <<45>>
Ellipsis == <<46, 46, 46>>

\* the longest notes the PDF table shows whole, and what it keeps of longer ones
NotesLimit == 50
NotesKept == 47

\* str of an integer: its decimal digits, a minus sign before a negative one
RECURSIVE digits(_)
digits(n) == IF n < 10 THEN <<48 + n>> ELSE digits(n \div 10) \o <<48 + (n % 10)>>

str(n) == IF n < 0 THEN <<45>> \o digits(0 - n) ELSE digits(n)

\* strftime's %m and %d: two digits
two_digits(n) == IF n < 10 THEN <<48>> \o digits(n) ELSE digits(n)

\* f"{percentage:.2f}%" of a percentage kept in hundredths
format_percentage(p) ==
    LET a == IF p < 0 THEN 0 - p ELSE p
    IN  (IF p < 0 THEN <<45>> ELSE <<>>)
            \o digits(a \div 100) \o <<46>> \o two_digits(a % 100) \o <<37>>

\* a day of the Gregorian or of the Shamsi calendar
Date(year, month, day) == [year |-> year, month |-> month, day |-> day]

\* gregorian_to_shamsi on the two days either side of Nowruz 1403
gregorian_to_shamsi(d) ==
    IF d = Date(2024, 3, 19) THEN Date(1402, 12, 29) ELSE Date(1403, 1, 1)

\* format_shamsi_date with the default format "%Y/%m/%d"
format_shamsi_date(d) ==
    digits(d.year) \o <<47>> \o two_digits(d.month) \o <<47>> \o two_digits(d.day)

format_date_for_display(d) == format_shamsi_date(gregorian_to_shamsi(d))

\* a row handed to an export: a stress log, an anxiety result with the name
\* of its test; 0 stands for a sleep or activity value that was not entered,
\* the empty text for notes or an interpretation that was not
ReportLog(date, stress_level, sleep_hours, physical_activity, notes) ==
    [date |-> date, stress_level |-> stress_level, sleep_hours |-> sleep_hours,
     physical_activity |-> physical_activity, notes |-> notes]
ReportResult(date, test_name, score, max_score, percentage, interpretation) ==
    [date |-> date, test_name |-> test_name, score |-> score, max_score |-> max_score,
     percentage |-> percentage, interpretation |-> interpretation]

\* a cell of a table: a text, or (Excel) a number put in as it is
TextCell(text) == [type |-> "str", text |-> text, value |-> 0]
NumberCell(value) == [type |-> "int", text |-> <<>>, value |-> value]

\* a block of a document: its kind, its heading text, its data cells and,
\* for a table, its rows with the header row first
TableBlock(kind, text, cells, rows) ==
    [kind |-> kind, text |-> text, cells |-> cells, rows |-> rows]
Block(kind, text, cells) == TableBlock(kind, text, cells, <<>>)

\* what is at the destination path: nothing, or a file holding a whole
\* document, or a file a failed write left unfinished
NoFile == [present |-> FALSE, whole |-> TRUE, document |-> <<>>]
File(document) == [present |-> TRUE, whole |-> TRUE, document |-> document]
PartialFile == [present |-> TRUE, whole |-> FALSE, document |-> <<>>]

\* outcome of an export: True with the document written, False with the
\* error logged, or the exception that escaped; wrote tells how much of the
\* file the library wrote before it returned or raised
Exported(document) ==
    [exc |-> "none", ret |-> TRUE, document |-> document, log |-> "", wrote |-> "all"]
ExportFailed(msg) ==
    [exc |-> "none", ret |-> FALSE, document |-> <<>>, log |-> msg, wrote |-> "nothing"]
ExportTorn(msg) ==
    [exc |-> "none", ret |-> FALSE, document |-> <<>>, log |-> msg, wrote |-> "part"]
ExportRaised(e) ==
    [exc |-> e, ret |-> FALSE, document |-> <<>>, log |-> "", wrote |-> "nothing"]

\* the outcome of building a report from shaped cells: an exception of a
\* shaper or of the write lands in the except clause of the export, which
\* logs and returns False; a write that raised after the library had opened
\* the file (torn) leaves what it had written
finish_export(shaped, elements, write_fails, torn, msg) ==
    IF \E i \in DOMAIN shaped : shaped[i].exc # "none" THEN ExportFailed(msg)
    ELSE IF write_fails THEN (IF torn THEN ExportTorn(msg) ELSE ExportFailed(msg))
    ELSE Exported(elements)

\* the file at the destination after an export with this outcome
written(file, out) ==
    IF out.wrote = "all" THEN File(out.document)
    ELSE IF out.wrote = "part" THEN PartialFile
    ELSE file

\* the notes cell of the PDF tables before shaping
pdf_notes_uncut(notes) == IF notes = <<>> THEN Dash ELSE notes
pdf_notes(notes) ==
    LET shown == IF notes = <<>> THEN Dash ELSE notes
    IN  IF Len(shown) > NotesLimit THEN SubSeq(shown, 1, NotesKept) \o Ellipsis ELSE shown

\* the header and a data row of the PDF stress table
pdf_stress_header(e, failing) ==
    <<pdf_prepare_rtl_text(e, NotesLabel, failing),
      pdf_prepare_rtl_text(e, ActivityLabel, failing),
      pdf_prepare_rtl_text(e, SleepLabel, failing),
      pdf_prepare_rtl_text(e, LevelLabel, failing),
      pdf_prepare_rtl_text(e, DateLabel, failing)>>

pdf_stress_row_date_first(log, notes, date) ==
    <<TextCell(date.text),
      TextCell(IF log.physical_activity # 0 THEN str(log.physical_activity) ELSE Dash),
      TextCell(IF log.sleep_hours # 0 THEN str(log.sleep_hours) ELSE Dash),
      TextCell(str(log.stress_level)),
      TextCell(notes.text)>>
pdf_stress_row(log, notes, date) ==
    <<TextCell(notes.text),
      TextCell(IF log.physical_activity # 0 THEN str(log.physical_activity) ELSE Dash),
      TextCell(IF log.sleep_hours # 0 THEN str(log.sleep_hours) ELSE Dash),
      TextCell(str(log.stress_level)),
      TextCell(date.text)>>

\* the rows of a table: the header row, then the data rows
header_row(shaped) == <<[i \in DOMAIN shaped |-> TextCell(shaped[i].text)]>>

\* the PDF stress table of the stress report and of the combined report
pdf_stress_table(e, logs, failing) ==
    LET heading == pdf_prepare_rtl_text(e, HistoryLabel, failing)
        header == pdf_stress_header(e, failing)
        notes == [i \in DOMAIN logs |->
                    pdf_prepare_rtl_text(e, pdf_notes(logs[i].notes), failing)]
        dates == [i \in DOMAIN logs |->
                    pdf_prepare_rtl_text(e, format_date_for_display(logs[i].date), failing)]
    IN  [shaped |-> <<heading>> \o header \o notes \o dates,
         block |-> TableBlock("stress_table", heading.text,
                              [i \in DOMAIN logs |-> notes[i].text],
                              header_row(header)
                                \o [i \in DOMAIN logs |->
                                      pdf_stress_row(logs[i], notes[i], dates[i])])]

\* PDFService.export_stress_report; the module imports reportlab at its top
pdf_export_stress_report(e, username, logs, failing, write_fails, torn) ==
    IF ~e.reportlab THEN ExportRaised("ImportError")
    ELSE LET title == pdf_prepare_rtl_text(e, ReportsLabel, failing)
             user == pdf_prepare_rtl_text(e, username, failing)
             table == pdf_stress_table(e, logs, failing)
             no_data == pdf_prepare_rtl_text(e, NoDataLabel, failing)
             elements ==
                 <<Block("title", title.text, <<>>), Block("user_info", <<>>, <<user.text>>)>>
                 \o (IF logs # <<>>
                     THEN <<Block("stress_summary", <<>>, <<>>), table.block>>
                     ELSE <<Block("no_data", no_data.text, <<>>)>>)
         IN  finish_export(<<title, user>>
                             \o (IF logs # <<>> THEN table.shaped ELSE <<no_data>>),
                           elements, write_fails, torn, "Error exporting PDF report")

\* the header and a data row of the anxiety table of the combined report
pdf_anxiety_header(e, failing) ==
    <<pdf_prepare_rtl_text(e, InterpretationLabel, failing),
      pdf_prepare_rtl_text(e, PercentageLabel, failing),
      pdf_prepare_rtl_text(e, MaxScoreLabel, failing),
      pdf_prepare_rtl_text(e, ScoreLabel, failing),
      pdf_prepare_rtl_text(e, TestNameLabel, failing),
      pdf_prepare_rtl_text(e, DateLabel, failing)>>

pdf_anxiety_row(result, interpretation, name, date) ==
    <<TextCell(interpretation.text),
      TextCell(format_percentage(result.percentage)),
      TextCell(str(result.max_score)),
      TextCell(str(result.score)),
      TextCell(name.text),
      TextCell(date.text)>>

pdf_anxiety_table(e, anxiety_results, failing) ==
    LET heading == pdf_prepare_rtl_text(e, HistoryLabel, failing)
        header == pdf_anxiety_header(e, failing)
        names == [i \in DOMAIN anxiety_results |->
                    pdf_prepare_rtl_text(e, anxiety_results[i].test_name, failing)]
        interpretations ==
            [i \in DOMAIN anxiety_results |->
                pdf_prepare_rtl_text(e, IF anxiety_results[i].interpretation = <<>>
                                        THEN Dash ELSE anxiety_results[i].interpretation,
                                     failing)]
        dates == [i \in DOMAIN anxiety_results |->
                    pdf_prepare_rtl_text(e, format_date_for_display(anxiety_results[i].date),
                                         failing)]
    IN  [shaped |-> <<heading>> \o header \o names \o interpretations \o dates,
         block |-> TableBlock("anxiety_table", heading.text,
                              [i \in DOMAIN anxiety_results |-> names[i].text],
                              header_row(header)
                                \o [i \in DOMAIN anxiety_results |->
                                      pdf_anxiety_row(anxiety_results[i], interpretations[i],
                                                      names[i], dates[i])])]

\* PDFService.export_combined_report
pdf_export_combined_report(e, username, stress_logs_arg, anxiety_results, failing, write_fails, torn) ==
    IF ~e.reportlab THEN ExportRaised("ImportError")
    ELSE LET title == pdf_prepare_rtl_text(e, ReportsLabel, failing)
             user == pdf_prepare_rtl_text(e, username, failing)
             stress == pdf_stress_table(e, stress_logs_arg, failing)
             anxiety == pdf_anxiety_table(e, anxiety_results, failing)
             elements ==
                 <<Block("title", title.text, <<>>), Block("user_info", <<>>, <<user.text>>)>>
                 \o (IF stress_logs_arg # <<>>
                     THEN <<Block("stress_summary", <<>>, <<>>), stress.block>>
                     ELSE <<>>)
                 \o (IF anxiety_results # <<>>
                     THEN <<Block("page_break", <<>>, <<>>),
                            Block("title", title.text, <<>>),
                            Block("user_info", <<>>, <<user.text>>),
                            Block("anxiety_summary", <<>>, <<>>),
                            anxiety.block>>
                     ELSE <<>>)
         IN  finish_export(<<title, user>>
                             \o (IF stress_logs_arg # <<>> THEN stress.shaped ELSE <<>>)
                             \o (IF anxiety_results # <<>> THEN anxiety.shaped ELSE <<>>),
                           elements, write_fails, torn,
                           "Error exporting combined PDF report")

\* a data row of the Excel stress table: the numbers go in as they are
excel_stress_row(log, notes, date) ==
    <<TextCell(notes.text),
      IF log.physical_activity # 0 THEN NumberCell(log.physical_activity) ELSE TextCell(Dash),
      IF log.sleep_hours # 0 THEN NumberCell(log.sleep_hours) ELSE TextCell(Dash),
      NumberCell(log.stress_level),
      TextCell(date.text)>>

\* ExcelService.export_stress_report: labels and headings go in as they are,
\* the values, the notes and the dates through the shaper with reshape=True
excel_export_stress_report(e, username, logs, failing, write_fails, torn) ==
    IF ~e.openpyxl THEN ExportFailed("openpyxl library not available")
    ELSE LET user == excel_prepare_rtl_text(e, username, TRUE, failing)
             notes == [i \in DOMAIN logs |->
                         excel_prepare_rtl_text(e, IF logs[i].notes = <<>>
                                                   THEN Dash ELSE logs[i].notes,
                                                TRUE, failing)]
             dates == [i \in DOMAIN logs |->
                         excel_prepare_rtl_text(e, format_date_for_display(logs[i].date),
                                                TRUE, failing)]
             header == <<NotesLabel, ActivityLabel, SleepLabel, LevelLabel, DateLabel>>
             elements ==
                 <<Block("title", ReportsLabel, <<>>), Block("user_info", <<>>, <<user.text>>)>>
                 \o (IF logs # <<>>
                     THEN <<Block("stress_summary", <<>>, <<>>),
                            TableBlock("stress_table", HistoryLabel,
                                       [i \in DOMAIN logs |-> notes[i].text],
                                       <<[i \in DOMAIN header |-> TextCell(header[i])]>>
                                         \o [i \in DOMAIN logs |->
                                               excel_stress_row(logs[i], notes[i], dates[i])])>>
                     ELSE <<>>)
         IN  finish_export(<<user>> \o notes \o dates, elements, write_fails, torn,
                           "Error exporting Excel report")

(***************************************************************************)
(* Question dialog (AnxietyTestDialog)                                     *)
(***************************************************************************)
\* None in the answer list, and no button checked in the button group
NoAnswer == -1

\* the dialog: closed before it is constructed; open while exec() runs;
\* accepted or rejected once exec() has returned
TestDialog(n, current_question_index, answers, checked, state) ==
    [n |-> n, current_question_index |-> current_question_index, answers |-> answers,
     checked |-> checked, state |-> state]
NoDialog == TestDialog(0, 0, <<>>, NoAnswer, "closed")

\* _show_question: a new button group, with the recorded answer checked again
show_question(d, index) ==
    IF index < 0 \/ index >= d.n THEN d
    ELSE [d EXCEPT !.current_question_index = index, !.checked = d.answers[index + 1]]

\* _save_current_answer: whether a button was checked, and the dialog after
save_current_answer(d) ==
    IF d.checked = NoAnswer THEN [saved |-> FALSE, dialog |-> d]
    ELSE [saved |-> TRUE,
          dialog |-> [d EXCEPT !.answers[d.current_question_index + 1] = d.checked]]

\* AnxietyTestDialog.__init__
new_dialog(n) == show_question(TestDialog(n, 0, [i \in 1..n |-> NoAnswer], NoAnswer, "open"), 0)

on_previous(d) ==
    IF d.current_question_index > 0
    THEN show_question(save_current_answer(d).dialog, d.current_question_index - 1)
    ELSE d

on_next_unsaved(d) ==
    IF d.current_question_index < d.n - 1
    THEN show_question(save_current_answer(d).dialog, d.current_question_index + 1)
    ELSE d
on_next(d) ==
    LET s == save_current_answer(d)
    IN  IF ~s.saved THEN d
        ELSE IF d.current_question_index < d.n - 1
        THEN show_question(s.dialog, d.current_question_index + 1)
        ELSE s.dialog

on_finish(d) ==
    LET s == save_current_answer(d)
    IN  IF ~s.saved THEN d
        ELSE IF \E i \in DOMAIN s.dialog.answers : s.dialog.answers[i] = NoAnswer
        THEN s.dialog
        ELSE [s.dialog EXCEPT !.state = "accepted"]

(***************************************************************************)
(* Exercise timer (ExerciseTimerDialog, SessionService)                    *)
(***************************************************************************)
SESSION_COMPLETED == "completed"
VALID_STATUSES == {"completed", "incomplete", "abandoned"}

\* the timer dialog: none before it is constructed; open while exec() runs;
\* accepted or rejected after; active tells whether the QTimer is started;
\* session_id 0 is None
TimerDialog(state, elapsed_seconds, is_running, active, session_id) ==
    [state |-> state, elapsed_seconds |-> elapsed_seconds, is_running |-> is_running,
     active |-> active, session_id |-> session_id]
NoTimer == TimerDialog("none", 0, FALSE, FALSE, 0)

Session(id, user_id, exercise_id, duration, completion_status) ==
    [id |-> id, user_id |-> user_id, exercise_id |-> exercise_id, duration |-> duration,
     completion_status |-> completion_status]

\* SessionService.create_session: the id of the new session, 0 for None
create_session(rows, user_id, exercise_id, duration, completion_status, db_error) ==
    IF completion_status \notin VALID_STATUSES THEN [id |-> 0, rows |-> rows]
    ELSE IF duration <= 0 THEN [id |-> 0, rows |-> rows]
    ELSE IF db_error THEN [id |-> 0, rows |-> rows]
    ELSE [id |-> Len(rows) + 1,
          rows |-> Append(rows, Session(Len(rows) + 1, user_id, exercise_id, duration,
                                        completion_status))]

\* _update_timer
update_timer(t) ==
    IF t.is_running THEN [t EXCEPT !.elapsed_seconds = t.elapsed_seconds + 1] ELSE t

\* __init__ and _start_timer
start_timer == update_timer(TimerDialog("open", 0, TRUE, TRUE, 0))

\* max(1, (elapsed_seconds + 59) // 60)
duration_minutes(elapsed_seconds) ==
    LET m == (elapsed_seconds + 59) \div 60 IN IF m > 1 THEN m ELSE 1

\* _stop_timer: the dialog and the sessions after
stop_timer_again(t, rows, user_id, exercise_id, db_error) ==
    LET s == create_session(rows, user_id, exercise_id,
                            duration_minutes(t.elapsed_seconds), SESSION_COMPLETED, db_error)
        stopped == [t EXCEPT !.is_running = FALSE, !.active = FALSE, !.session_id = s.id]
    IN  [timer |-> IF s.id # 0 THEN [stopped EXCEPT !.state = "accepted"] ELSE stopped,
         rows |-> s.rows]
stop_timer(t, rows, user_id, exercise_id, db_error) ==
    IF ~t.is_running THEN [timer |-> t, rows |-> rows]
    ELSE LET s == create_session(rows, user_id, exercise_id,
                                 duration_minutes(t.elapsed_seconds), SESSION_COMPLETED,
                                 db_error)
             stopped == [t EXCEPT !.is_running = FALSE, !.active = FALSE,
                                  !.session_id = s.id]
         IN  [timer |-> IF s.id # 0 THEN [stopped EXCEPT !.state = "accepted"] ELSE stopped,
              rows |-> s.rows]

\* closeEvent: stops a running timer, then the dialog closes rejected unless
\* the stop has accepted it
close_event(t, rows, user_id, exercise_id, db_error) ==
    LET s == IF t.is_running THEN stop_timer(t, rows, user_id, exercise_id, db_error)
             ELSE [timer |-> t, rows |-> rows]
    IN  [timer |-> IF s.timer.state = "open" THEN [s.timer EXCEPT !.state = "rejected"]
                   ELSE s.timer,
         rows |-> s.rows]

(***************************************************************************)
(* Calls                                                                   *)
(***************************************************************************)
Call(op, test_id, answers, score, max_score, out) ==
    [op |-> op, test_id |-> test_id, answers |-> answers, score |-> score,
     max_score |-> max_score, exc |-> out.exc, ret |-> out.ret, text |-> out.text,
     none |-> out.none, log |-> out.log]

NoCall == Call("none", 0, <<>>, 0, 0, Return(0))

\* arguments drawn for a call that has not been made yet
Pending(answers, score, max_score) == Call("pending", 1, answers, score, max_score, Return(0))

CalculateScore(test_id, answers) ==
    /\ test_id \in DOMAIN tests
    /\ prev' = call
    /\ call' = Call("calculate_score", test_id, answers, 0, 0,
                    calculate_score(tests[test_id], questions[test_id], answers))
    /\ UNCHANGED <<tests, questions, results, next_id, stress_logs, today, env,
                   destination, dialog, timer, sessions>>

CalculatePercentage(score, max_score) ==
    /\ prev' = call
    /\ call' = Call("calculate_percentage", 0, <<>>, score, max_score,
                    Return(calculate_percentage(score, max_score)))
    /\ UNCHANGED <<tests, questions, results, next_id, stress_logs, today, env,
                   destination, dialog, timer, sessions>>

\* a get_interpretation whose sort is written back into the stored rule
GetInterpretationInPlace(test_id, score) ==
    /\ test_id \in DOMAIN tests
    /\ prev' = call
    /\ call' = Call("get_interpretation", test_id, <<>>, score, 0,
                    get_interpretation(tests[test_id], score))
    /\ tests' = [tests EXCEPT ![test_id].interpretation_rules.doc.thresholds.items =
                    IF get_interpretation(tests[test_id], score).exc = "none"
                       /\ tests[test_id].interpretation_rules.text = "json"
                    THEN sort_thresholds(@) ELSE @]
    /\ UNCHANGED <<questions, results, next_id, stress_logs, today, env,
                   destination, dialog, timer, sessions>>
GetInterpretation(test_id, score) ==
    /\ test_id \in DOMAIN tests
    /\ prev' = call
    /\ call' = Call("get_interpretation", test_id, <<>>, score, 0,
                    get_interpretation(tests[test_id], score))
    /\ UNCHANGED <<tests, questions, results, next_id, stress_logs, today, env,
                   destination, dialog, timer, sessions>>

CreateTestResult(user_id, test_id, answers, db_error) ==
    /\ next_id <= MaxResults
    /\ prev' = call
    /\ LET r == create_test_result(results, next_id, user_id, test_id, answers, db_error)
       IN  /\ call' = Call("create_test_result", test_id, answers, 0, 0, r.out)
           /\ results' = r.rows
           /\ next_id' = IF DOMAIN r.rows = DOMAIN results THEN next_id ELSE next_id + 1
    /\ UNCHANGED <<tests, questions, stress_logs, today, env,
                   destination, dialog, timer, sessions>>

DeleteResult(result_id) ==
    /\ prev' = call
    /\ LET r == delete_result(results, result_id)
       IN  /\ call' = Call("delete_result", 0, <<>>, 0, 0, r.out)
           /\ results' = r.rows
    /\ UNCHANGED <<tests, questions, next_id, stress_logs, today, env,
                   destination, dialog, timer, sessions>>

\* calls of StressService: the operation and its outcome
LogCall(op, out) ==
    [op |-> op, exc |-> out.exc, ret |-> out.ret, none |-> out.none, log |-> out.log]

AverageCall(user_id, days, average) ==
    [op |-> "get_average_stress", user_id |-> user_id, days |-> days,
     none |-> average.none, total |-> average.total, count |-> average.count]

\* a refresh of the dashboard: the weekly average it fetched, the label it
\* set and the outcome of the anxiety warning check
RefreshCall(user_id, weekly_avg, label, check) ==
    [op |-> "refresh", user_id |-> user_id, weekly_avg |-> weekly_avg, label |-> label,
     check |-> check]

CreateLog(user_id, stress_level, log_date, db_error) ==
    /\ stress_logs.seq < MaxLogs
    /\ prev' = call
    /\ LET r == create_log(stress_logs, user_id, stress_level, log_date, db_error)
       IN  /\ call' = LogCall("create_log", r.out)
           /\ stress_logs' = r.logs
    /\ UNCHANGED <<tests, questions, results, next_id, today, env,
                   destination, dialog, timer, sessions>>

UpdateLog(log_id, kwargs) ==
    /\ prev' = call
    /\ LET r == update_log(stress_logs, log_id, kwargs)
       IN  /\ call' = LogCall("update_log", r.out)
           /\ stress_logs' = r.logs
    /\ UNCHANGED <<tests, questions, results, next_id, today, env,
                   destination, dialog, timer, sessions>>

DeleteLog(log_id) ==
    /\ prev' = call
    /\ LET r == delete_log(stress_logs, log_id)
       IN  /\ call' = LogCall("delete_log", r.out)
           /\ stress_logs' = r.logs
    /\ UNCHANGED <<tests, questions, results, next_id, today, env,
                   destination, dialog, timer, sessions>>

GetAverageStress(user_id, days) ==
    /\ prev' = call
    /\ call' = AverageCall(user_id, days, get_average_stress(stress_logs, today, user_id, days))
    /\ UNCHANGED <<tests, questions, results, next_id, stress_logs, today, env,
                   destination, dialog, timer, sessions>>

Refresh(user_id) ==
    /\ prev' = call
    /\ LET weekly_avg == get_average_stress(stress_logs, today, user_id, WeeklyDays)
       IN  call' = RefreshCall(user_id, weekly_avg, weekly_avg_label(weekly_avg),
                               check_anxiety_warning(results, user_id))
    /\ UNCHANGED <<tests, questions, results, next_id, stress_logs, today, env,
                   destination, dialog, timer, sessions>>

\* a test taken through the test dialog and stored by create_test_result
TakeTest(user_id, answers) ==
    /\ next_id <= MaxTaken
    /\ prev' = call
    /\ LET r == create_test_result(results, next_id, user_id, 1, answers, FALSE)
       IN  /\ call' = Call("create_test_result", 1, answers, 0, 0, r.out)
           /\ results' = r.rows
           /\ next_id' = IF DOMAIN r.rows = DOMAIN results THEN next_id ELSE next_id + 1
    /\ UNCHANGED <<tests, questions, stress_logs, today, env,
                   destination, dialog, timer, sessions>>

\* a call of a shaper or of an export
ShaperCall(renderer, text, reshape, failing, out) ==
    [op |-> "prepare_rtl_text", renderer |-> renderer, text |-> text, reshape |-> reshape,
     failing |-> failing, exc |-> out.exc, out |-> out.text, log |-> out.log]

ExportCall(operation, username, logs, anxiety_results, failing, write_fails, torn, out) ==
    [op |-> "export", operation |-> operation, username |-> username, logs |-> logs,
     anxiety_results |-> anxiety_results, failing |-> failing, write_fails |-> write_fails,
     torn |-> torn, exc |-> out.exc, ret |-> out.ret, document |-> out.document,
     log |-> out.log]

\* arguments drawn for a shaper or export call that has not been made yet
PendingReport(operation, text, reshape, logs, anxiety_results, failing, write_fails, torn) ==
    [op |-> "pending", operation |-> operation, text |-> text, reshape |-> reshape,
     logs |-> logs, anxiety_results |-> anxiety_results, failing |-> failing,
     write_fails |-> write_fails, torn |-> torn]

PrepareRtlTextPdf(text, failing) ==
    /\ prev' = call
    /\ call' = ShaperCall("pdf", text, TRUE, failing, pdf_prepare_rtl_text(env, text, failing))
    /\ UNCHANGED <<tests, questions, results, next_id, stress_logs, today, env,
                   destination, dialog, timer, sessions>>

PrepareRtlTextExcel(text, reshape, failing) ==
    /\ prev' = call
    /\ call' = ShaperCall("excel", text, reshape, failing,
                          excel_prepare_rtl_text(env, text, reshape, failing))
    /\ UNCHANGED <<tests, questions, results, next_id, stress_logs, today, env,
                   destination, dialog, timer, sessions>>

ExportStressReportPdf(username, logs, failing, write_fails, torn) ==
    LET out == pdf_export_stress_report(env, username, logs, failing, write_fails, torn)
    IN  /\ prev' = call
        /\ call' = ExportCall("pdf_stress", username, logs, <<>>, failing, write_fails,
                              torn, out)
        /\ destination' = written(destination, out)
        /\ UNCHANGED <<tests, questions, results, next_id, stress_logs, today, env,
                       dialog, timer, sessions>>

ExportCombinedReportPdf(username, logs, anxiety_results, failing, write_fails, torn) ==
    LET out == pdf_export_combined_report(env, username, logs, anxiety_results, failing,
                                          write_fails, torn)
    IN  /\ prev' = call
        /\ call' = ExportCall("pdf_combined", username, logs, anxiety_results, failing,
                              write_fails, torn, out)
        /\ destination' = written(destination, out)
        /\ UNCHANGED <<tests, questions, results, next_id, stress_logs, today, env,
                       dialog, timer, sessions>>

ExportStressReportExcel(username, logs, failing, write_fails, torn) ==
    LET out == excel_export_stress_report(env, username, logs, failing, write_fails, torn)
    IN  /\ prev' = call
        /\ call' = ExportCall("excel_stress", username, logs, <<>>, failing, write_fails,
                              torn, out)
        /\ destination' = written(destination, out)
        /\ UNCHANGED <<tests, questions, results, next_id, stress_logs, today, env,
                       dialog, timer, sessions>>

\* an event of the question dialog and whether it showed the warning box
DialogCall(event, warned) == [op |-> "dialog", event |-> event, warned |-> warned]

\* AnxietyTestScreen._on_start_test opens the dialog unless the test has no question
OpenTestDialog ==
    /\ dialog.state = "closed"
    /\ questions[1] # <<>>
    /\ prev' = call
    /\ dialog' = new_dialog(Len(questions[1]))
    /\ call' = DialogCall("open", FALSE)
    /\ UNCHANGED <<tests, questions, results, next_id, stress_logs, today, env,
                   destination, timer, sessions>>

\* a click on a radio button of the question shown
SelectOption(option) ==
    /\ dialog.state = "open"
    /\ prev' = call
    /\ dialog' = [dialog EXCEPT !.checked = option]
    /\ call' = DialogCall("select", FALSE)
    /\ UNCHANGED <<tests, questions, results, next_id, stress_logs, today, env,
                   destination, timer, sessions>>

\* the Previous button is enabled past the first question
OnPrevious ==
    /\ dialog.state = "open"
    /\ dialog.current_question_index > 0
    /\ prev' = call
    /\ dialog' = on_previous(dialog)
    /\ call' = DialogCall("previous", FALSE)
    /\ UNCHANGED <<tests, questions, results, next_id, stress_logs, today, env,
                   destination, timer, sessions>>

\* the Next button is visible before the last question
OnNext ==
    /\ dialog.state = "open"
    /\ dialog.current_question_index # dialog.n - 1
    /\ prev' = call
    /\ dialog' = on_next(dialog)
    /\ call' = DialogCall("next", ~save_current_answer(dialog).saved)
    /\ UNCHANGED <<tests, questions, results, next_id, stress_logs, today, env,
                   destination, timer, sessions>>

\* the Finish button is visible on the last question
OnFinish ==
    /\ dialog.state = "open"
    /\ dialog.current_question_index = dialog.n - 1
    /\ prev' = call
    /\ dialog' = on_finish(dialog)
    /\ call' = DialogCall("finish", on_finish(dialog).state # "accepted")
    /\ UNCHANGED <<tests, questions, results, next_id, stress_logs, today, env,
                   destination, timer, sessions>>

\* Escape or the close box
RejectDialog ==
    /\ dialog.state = "open"
    /\ prev' = call
    /\ dialog' = [dialog EXCEPT !.state = "rejected"]
    /\ call' = DialogCall("reject", FALSE)
    /\ UNCHANGED <<tests, questions, results, next_id, stress_logs, today, env,
                   destination, timer, sessions>>

\* exec() returned Accepted: the screen hands get_answers() to create_test_result
SaveAccepted(user_id) ==
    /\ dialog.state = "accepted"
    /\ prev' = call
    /\ LET r == create_test_result(results, next_id, user_id, 1, dialog.answers, FALSE)
       IN  /\ call' = Call("create_test_result", 1, dialog.answers, 0, 0, r.out)
           /\ results' = r.rows
           /\ next_id' = IF DOMAIN r.rows = DOMAIN results THEN next_id ELSE next_id + 1
    /\ dialog' = [dialog EXCEPT !.state = "saved"]
    /\ UNCHANGED <<tests, questions, stress_logs, today, env, destination, timer, sessions>>

\* an event of the timer dialog
TimerCall(event) == [op |-> "timer", event |-> event]

\* ExercisesScreen._on_start_exercise constructs the dialog, which starts its timer
OpenTimer ==
    /\ timer.state = "none"
    /\ prev' = call
    /\ timer' = start_timer
    /\ call' = TimerCall("open")
    /\ UNCHANGED <<tests, questions, results, next_id, stress_logs, today, env,
                   destination, dialog, sessions>>

\* a timeout of the QTimer, which fires while it is started
Tick ==
    /\ timer.state # "none"
    /\ timer.active
    /\ timer.elapsed_seconds < MaxSeconds
    /\ prev' = call
    /\ timer' = update_timer(timer)
    /\ call' = TimerCall("tick")
    /\ UNCHANGED <<tests, questions, results, next_id, stress_logs, today, env,
                   destination, dialog, sessions>>

\* a click on Stop while the dialog is shown
StopTimer(db_error) ==
    /\ timer.state = "open"
    /\ prev' = call
    /\ LET s == stop_timer(timer, sessions, 1, 1, db_error)
       IN  timer' = s.timer /\ sessions' = s.rows
    /\ call' = TimerCall("stop")
    /\ UNCHANGED <<tests, questions, results, next_id, stress_logs, today, env,
                   destination, dialog>>

\* a click on Cancel: reject(), which hides the dialog and stops nothing
CancelTimer ==
    /\ timer.state = "open"
    /\ prev' = call
    /\ timer' = [timer EXCEPT !.state = "rejected"]
    /\ call' = TimerCall("cancel")
    /\ UNCHANGED <<tests, questions, results, next_id, stress_logs, today, env,
                   destination, dialog, sessions>>

\* the close box of the window
CloseTimer(db_error) ==
    /\ timer.state = "open"
    /\ prev' = call
    /\ LET s == close_event(timer, sessions, 1, 1, db_error)
       IN  timer' = s.timer /\ sessions' = s.rows
    /\ call' = TimerCall("close")
    /\ UNCHANGED <<tests, questions, results, next_id, stress_logs, today, env,
                   destination, dialog>>

(***************************************************************************)
(* Inputs                                                                  *)
(***************************************************************************)
SeqsUpTo(S, n) == UNION {[1..k -> S] : k \in 0..n}

\* option indices of the seeded questions (four options each)
AnswerValues == 0..3
ScenarioA == <<0, 1, 2, 3, 0, 1, 2, 3, 0, 1>>
ScenarioB == <<3, 3, 0, 3, 0>>
Answers == SeqsUpTo(AnswerValues, MaxLen) \cup {ScenarioA, ScenarioB}

\* question numbers of a test with n questions, as ORDER BY question_number returns them
Numbers(n) == [i \in 1..n |-> i]
QuestionLists == {Numbers(n) : n \in (0..MaxLen) \cup {5, 10}}
\* the question numbers the table admits for one test: UNIQUE(test_id,
\* question_number) and nothing else, read back in ascending order
QuestionNumberLists ==
    {q \in SeqsUpTo(1..MaxQuestionNumber, MaxLen) :
        \A i \in 1..(Len(q) - 1) : q[i] < q[i + 1]}

Scores == (-1)..MaxScoreArg
MaxScores == 0..MaxScoreArg

Methods == {JAbsent, JStr("sum"), JStr("reverse"), JStr("other"), JInt(1)}
ReverseQuestions ==
    {JAbsent, JInt(1)} \cup {JIntList(S) : S \in SUBSET (1..MaxLen) \cup {{3, 5}, {3, 4}}}
MaxOptions == {JAbsent, JInt(3), JInt(4), JStr("3")}
ScoringDocs ==
    {RuleObject(m, rq, mo, PSS10Thresholds) :
        m \in Methods, rq \in ReverseQuestions, mo \in MaxOptions}

ThresholdElements ==
    {NotAnObject} \cup
    {Threshold(m, i) : m \in {JAbsent, JStr("13"), JInt(13), JInt(26), JInt(40)},
                       i \in {JAbsent, JStr("low"), JStr("high")}}
ThresholdLists ==
    {ThresholdsAbsent, ThresholdsNotAList, PSS10Thresholds, PSS5Thresholds} \cup
    {ThresholdsList(l) : l \in SeqsUpTo(ThresholdElements, MaxThresholds)}
ThresholdDocs ==
    {RuleObject(JStr("reverse"), JIntList({3, 5}), JInt(3), th) : th \in ThresholdLists}

UnparsedRules == {RuleNone, RuleEmpty, RuleGarbage}
NonObjectRules == {RuleJson(RuleNonObject("list")), RuleJson(RuleNonObject("int"))}

TestRow(id, max_score, rules) ==
    [id |-> id, max_score |-> max_score, interpretation_rules |-> rules]

\* the seeded tests, the test of scenario A, and one test of every malformed kind:
\* <<interpretation_rules, max_score, number of questions>>
SumRule == RuleJson(RuleObject(JStr("sum"), JAbsent, JAbsent, PSS10Thresholds))
WronglyTypedRule ==
    RuleJson(RuleObject(JStr("reverse"), JInt(1), JStr("3"), ThresholdsNotAList))
ScenarioTests ==
    {<<PSS10Rule, 40, 10>>, <<PSS5Rule, 20, 5>>, <<SumRule, 40, 10>>,
     <<RuleNone, 40, 10>>, <<RuleGarbage, 0, 5>>,
     <<RuleJson(RuleNonObject("list")), 40, 10>>, <<WronglyTypedRule, 20, 5>>}
ScenarioAnswers == {ScenarioA, ScenarioB, <<>>}
ScenarioScores == {10, 35, 41}

(***************************************************************************)
(* Specifications                                                          *)
(***************************************************************************)
InitStore ==
    /\ results = <<>>
    /\ next_id = 1
    /\ stress_logs = NoLogs
    /\ today = 0
    /\ env = Installed
    /\ destination = NoFile
    /\ dialog = NoDialog
    /\ timer = NoTimer
    /\ sessions = <<>>
    /\ call = NoCall
    /\ prev = NoCall

\* the whole service on a database holding one test definition
Init ==
    /\ \E t \in ScenarioTests :
          /\ tests = (1 :> TestRow(1, t[2], t[1]))
          /\ questions = (1 :> Numbers(t[3]))
    /\ InitStore

Next ==
    \/ \E a \in ScenarioAnswers : CalculateScore(1, a)
    \/ \E sc \in ScenarioScores, m \in {0, 20, 40} : CalculatePercentage(sc, m)
    \/ \E sc \in ScenarioScores : GetInterpretation(1, sc)
    \/ \E t \in {1, 2}, a \in ScenarioAnswers, e \in BOOLEAN : CreateTestResult(1, t, a, e)
    \/ \E id \in 1..MaxResults : DeleteResult(id)

Spec == Init /\ [][Next]_vars

\* calculate_score on every scoring rule and every short answer list
InitScore ==
    /\ \E r \in UnparsedRules \cup NonObjectRules \cup {RuleJson(d) : d \in ScoringDocs} :
          tests = (1 :> TestRow(1, 40, r))
    /\ \E q \in QuestionLists : questions = (1 :> q)
    /\ results = <<>>
    /\ next_id = 1
    /\ stress_logs = NoLogs
    /\ today = 0
    /\ env = Installed
    /\ destination = NoFile
    /\ dialog = NoDialog
    /\ timer = NoTimer
    /\ sessions = <<>>
    /\ \E a \in Answers : call = Pending(a, 0, 0)
    /\ prev = NoCall

NextScore == call.op = "pending" /\ CalculateScore(1, call.answers)

SpecScore == InitScore /\ [][NextScore]_vars

\* get_interpretation on every threshold list and every score
InitInterpretation ==
    /\ \E r \in UnparsedRules \cup NonObjectRules \cup {RuleJson(d) : d \in ThresholdDocs} :
          tests = (1 :> TestRow(1, 40, r))
    /\ questions = (1 :> Numbers(10))
    /\ results = <<>>
    /\ next_id = 1
    /\ stress_logs = NoLogs
    /\ today = 0
    /\ env = Installed
    /\ destination = NoFile
    /\ dialog = NoDialog
    /\ timer = NoTimer
    /\ sessions = <<>>
    /\ \E sc \in Scores : call = Pending(<<>>, sc, 0)
    /\ prev = NoCall

NextInterpretation == call.op = "pending" /\ GetInterpretation(1, call.score)

SpecInterpretation == InitInterpretation /\ [][NextInterpretation]_vars

\* calculate_percentage on every score and maximum
InitPercentage ==
    /\ tests = (1 :> TestRow(1, 40, PSS10Rule))
    /\ questions = (1 :> Numbers(10))
    /\ results = <<>>
    /\ next_id = 1
    /\ stress_logs = NoLogs
    /\ today = 0
    /\ env = Installed
    /\ destination = NoFile
    /\ dialog = NoDialog
    /\ timer = NoTimer
    /\ sessions = <<>>
    /\ \E sc \in Scores, m \in MaxScores : call = Pending(<<>>, sc, m)
    /\ prev = NoCall

NextPercentage == call.op = "pending" /\ CalculatePercentage(call.score, call.max_score)

SpecPercentage == InitPercentage /\ [][NextPercentage]_vars


\* calculate_score under a reverse rule on every admissible question numbering
InitNumbering ==
    /\ \E S \in SUBSET (1..MaxQuestionNumber) :
          tests = (1 :> TestRow(1, 40, RuleJson(RuleObject(JStr("reverse"), JIntList(S),
                                                           JInt(3), PSS10Thresholds))))
    /\ \E q \in QuestionNumberLists :
          /\ questions = (1 :> q)
          /\ \E a \in [1..Len(q) -> AnswerValues] : call = Pending(a, 0, 0)
    /\ results = <<>>
    /\ next_id = 1
    /\ stress_logs = NoLogs
    /\ today = 0
    /\ env = Installed
    /\ destination = NoFile
    /\ dialog = NoDialog
    /\ timer = NoTimer
    /\ sessions = <<>>
    /\ prev = NoCall

NextNumbering == call.op = "pending" /\ CalculateScore(1, call.answers)

SpecNumbering == InitNumbering /\ [][NextNumbering]_vars

\* the stress log of two users and the dashboard's weekly average
UserIds == {1, 2}
StressLevels == {STRESS_LEVEL_MIN - 1, STRESS_LEVEL_MIN, STRESS_LEVEL_MAX}
LogDates == {today - WeeklyDays - 1, today - WeeklyDays, today, today + 1}
UpdateArgs ==
    {<<>>, "stress_level" :> STRESS_LEVEL_MAX + 1, "stress_level" :> STRESS_LEVEL_MAX,
     "date" :> today + 1}

InitStress ==
    /\ tests = (1 :> TestRow(1, 20, PSS5Rule))
    /\ questions = (1 :> Numbers(5))
    /\ InitStore

NextStress ==
    \/ \E u \in UserIds, lv \in StressLevels, d \in LogDates, e \in BOOLEAN :
          CreateLog(u, lv, d, e)
    \/ \E id \in 1..MaxLogs, kw \in UpdateArgs : UpdateLog(id, kw)
    \/ \E id \in 1..MaxLogs : DeleteLog(id)
    \/ \E u \in UserIds : GetAverageStress(u, WeeklyDays)
    \/ \E u \in UserIds : Refresh(u)

SpecStress == InitStress /\ [][NextStress]_vars

\* tests taken by two users and the dashboard's anxiety warning
WarningAnswers == {<<3, 3, 0, 3, 1>>, <<3, 3, 0, 3, 2>>}

NextWarning ==
    \/ \E u \in UserIds, a \in WarningAnswers : TakeTest(u, a)
    \/ \E u \in UserIds : Refresh(u)

SpecWarning == InitStress /\ [][NextWarning]_vars

\* texts over a Latin letter and the code points at and next to the ends of
\* the two ranges the shapers look for
TextChars == {65, 1535, 1536, 1791, 1792, 1871, 1872, 1919, 1920}
Texts == SeqsUpTo(TextChars, MaxText)
Failures == {"none", "reshape", "get_display"}
Environments ==
    {Environment(r, o, s, f) : r \in BOOLEAN, o \in BOOLEAN, s \in BOOLEAN, f \in BOOLEAN}
Usernames == {<<65>>, <<1593, 1604>>}
ReportLogs ==
    SeqsUpTo({ReportLog(Date(2024, 3, 20), STRESS_LEVEL_MAX, 7, 30, <<1582, 1608>>)}, MaxRows)
ReportResults ==
    SeqsUpTo({ReportResult(Date(2024, 3, 20), <<1575, 1587>>, 11, 20, 5500, <<1605, 1578>>)},
             MaxRows)

\* whether the write fails and, when it does, whether the file was opened first
WriteOutcomes == {<<FALSE, FALSE>>, <<TRUE, FALSE>>, <<TRUE, TRUE>>}

PendingReports ==
    {PendingReport("pdf_shaper", t, TRUE, <<>>, <<>>, f, FALSE, FALSE) :
        t \in Texts, f \in Failures}
    \cup {PendingReport("excel_shaper", t, r, <<>>, <<>>, f, FALSE, FALSE) :
             t \in Texts, r \in BOOLEAN, f \in Failures}
    \cup {PendingReport(o, u, TRUE, l, <<>>, f, w[1], w[2]) :
             o \in {"pdf_stress", "excel_stress"}, u \in Usernames, l \in ReportLogs,
             f \in Failures, w \in WriteOutcomes}
    \cup {PendingReport("pdf_combined", u, TRUE, l, a, f, w[1], w[2]) :
             u \in Usernames, l \in ReportLogs, a \in ReportResults,
             f \in Failures, w \in WriteOutcomes}

\* every shaper and every export once, in every environment
InitReport ==
    /\ tests = (1 :> TestRow(1, 20, PSS5Rule))
    /\ questions = (1 :> Numbers(5))
    /\ results = <<>>
    /\ next_id = 1
    /\ stress_logs = NoLogs
    /\ today = 0
    /\ env \in Environments
    /\ destination = NoFile
    /\ dialog = NoDialog
    /\ timer = NoTimer
    /\ sessions = <<>>
    /\ call \in PendingReports
    /\ prev = NoCall

NextReport ==
    /\ call.op = "pending"
    /\ \/ call.operation = "pdf_shaper" /\ PrepareRtlTextPdf(call.text, call.failing)
       \/ call.operation = "excel_shaper"
             /\ PrepareRtlTextExcel(call.text, call.reshape, call.failing)
       \/ call.operation = "pdf_stress"
             /\ ExportStressReportPdf(call.text, call.logs, call.failing, call.write_fails,
                                      call.torn)
       \/ call.operation = "pdf_combined"
             /\ ExportCombinedReportPdf(call.text, call.logs, call.anxiety_results,
                                        call.failing, call.write_fails, call.torn)
       \/ call.operation = "excel_stress"
             /\ ExportStressReportExcel(call.text, call.logs, call.failing,
                                        call.write_fails, call.torn)

SpecReport == InitReport /\ [][NextReport]_vars

\* notes of a given length whose characters all differ
NotesOf(n, first) == [i \in 1..n |-> first + i]

\* stress logs that differ in every column, with and without the optional
\* values, their notes absent, Latin at 47, 50 and 51 characters, and Persian
\* at 51
TableLogs ==
    {ReportLog(Date(2024, 3, 19), STRESS_LEVEL_MAX, 7, 30, NotesOf(NotesLimit + 1, 64)),
     ReportLog(Date(2024, 3, 20), STRESS_LEVEL_MIN, 0, 0, <<>>),
     ReportLog(Date(2024, 3, 20), 5, 0, 45, NotesOf(NotesLimit, 64)),
     ReportLog(Date(2024, 3, 19), 4, 8, 0, NotesOf(NotesLimit + 1, 1569)),
     ReportLog(Date(2024, 3, 20), 6, 6, 20, NotesOf(NotesKept, 64))}

TableResults ==
    {ReportResult(Date(2024, 3, 19), <<1575, 1587>>, 11, 20, 5500, <<1605, 1578>>),
     ReportResult(Date(2024, 3, 20), <<80, 83>>, 7, 40, 1750, <<>>)}

\* the destination before an export: no file, or the document of an earlier export
Destinations == {NoFile, File(<<Block("title", ReportsLabel, <<>>)>>)}

PendingExports ==
    {PendingReport(o, <<1593, 1604>>, TRUE, l, <<>>, f, w[1], w[2]) :
        o \in {"pdf_stress", "excel_stress"}, l \in SeqsUpTo(TableLogs, MaxRows),
        f \in Failures, w \in WriteOutcomes}
    \cup {PendingReport("pdf_combined", <<1593, 1604>>, TRUE, l, a, f, w[1], w[2]) :
             l \in SeqsUpTo(TableLogs, MaxRows), a \in SeqsUpTo(TableResults, MaxRows),
             f \in {"none"}, w \in WriteOutcomes}

\* every export once, onto an empty destination and onto an earlier document
InitExport ==
    /\ tests = (1 :> TestRow(1, 20, PSS5Rule))
    /\ questions = (1 :> Numbers(5))
    /\ results = <<>>
    /\ next_id = 1
    /\ stress_logs = NoLogs
    /\ today = 0
    /\ env = Installed
    /\ destination \in Destinations
    /\ dialog = NoDialog
    /\ timer = NoTimer
    /\ sessions = <<>>
    /\ call \in PendingExports
    /\ prev = NoCall

NextExport ==
    /\ call.op = "pending"
    /\ \/ call.operation = "pdf_stress"
             /\ ExportStressReportPdf(call.text, call.logs, call.failing, call.write_fails,
                                      call.torn)
       \/ call.operation = "pdf_combined"
             /\ ExportCombinedReportPdf(call.text, call.logs, call.anxiety_results,
                                        call.failing, call.write_fails, call.torn)
       \/ call.operation = "excel_stress"
             /\ ExportStressReportExcel(call.text, call.logs, call.failing,
                                        call.write_fails, call.torn)

SpecExport == InitExport /\ [][NextExport]_vars

\* one question dialog over a test of up to MaxQuestions questions, each with
\* the options 0..MaxOption
InitDialog ==
    /\ tests = (1 :> TestRow(1, 20, PSS5Rule))
    /\ questions \in {(1 :> Numbers(n)) : n \in 0..MaxQuestions}
    /\ InitStore

NextDialog ==
    \/ OpenTestDialog
    \/ \E o \in 0..MaxOption : SelectOption(o)
    \/ OnPrevious
    \/ OnNext
    \/ OnFinish
    \/ RejectDialog
    \/ SaveAccepted(1)

SpecDialog == InitDialog /\ [][NextDialog]_vars

\* one exercise timer dialog
NextTimer ==
    \/ OpenTimer
    \/ Tick
    \/ \E e \in BOOLEAN : StopTimer(e)
    \/ CancelTimer
    \/ \E e \in BOOLEAN : CloseTimer(e)

SpecTimer == InitStress /\ [][NextTimer]_vars

\* answers inside and outside the option range 0..3 submitted to tests with
\* a reverse rule of one low band, a sum rule, and no or an unparseable rule
LowBandRule ==
    RuleJson(RuleObject(JStr("reverse"), JIntList({2}), JInt(3),
                        ThresholdsList(<<Threshold(JInt(5), JStr("low"))>>)))
SubmitRules == {LowBandRule, SumRule, RuleNone, RuleEmpty, RuleGarbage}
SubmitAnswerValues == {-1, 0, 3, 4, 7}

\* one call of calculate_score or create_test_result, on an empty table and
\* on a table that holds an earlier result of the test
InitSubmit ==
    /\ \E r \in SubmitRules : tests = (1 :> TestRow(1, 6, r))
    /\ \E n \in 1..MaxAnswers :
          /\ questions = (1 :> Numbers(n))
          /\ \E a \in [1..n -> SubmitAnswerValues] : call = Pending(a, 0, 0)
          /\ \/ results = <<>> /\ next_id = 1
             \/ /\ results = create_test_result(<<>>, 1, 2, 1, [i \in 1..n |-> 0], FALSE).rows
                /\ next_id = 2
    /\ stress_logs = NoLogs
    /\ today = 0
    /\ env = Installed
    /\ destination = NoFile
    /\ dialog = NoDialog
    /\ timer = NoTimer
    /\ sessions = <<>>
    /\ prev = NoCall

NextSubmit ==
    /\ call.op = "pending"
    /\ \/ CalculateScore(1, call.answers)
       \/ \E t \in {1, 2}, e \in BOOLEAN : CreateTestResult(1, t, call.answers, e)

SpecSubmit == InitSubmit /\ [][NextSubmit]_vars

\* creates, updates and deletes of one user's logs with levels at and next to
\* both ends of the range
LevelValues ==
    {STRESS_LEVEL_MIN - 1, STRESS_LEVEL_MIN, STRESS_LEVEL_MAX, STRESS_LEVEL_MAX + 1}
LevelUpdates == {<<>>, "date" :> today + 1} \cup {"stress_level" :> lv : lv \in LevelValues}

NextLevels ==
    \/ \E lv \in LevelValues, e \in BOOLEAN : CreateLog(1, lv, today, e)
    \/ \E id \in 1..MaxLogs, kw \in LevelUpdates : UpdateLog(id, kw)
    \/ \E id \in 1..MaxLogs : DeleteLog(id)

SpecLevels == InitStress /\ [][NextLevels]_vars

(***************************************************************************)
(* Properties                                                              *)
(***************************************************************************)
TheRule == tests[1].interpretation_rules
IsObjectRule == TheRule.text = "json" /\ TheRule.doc.type = "object"
ScoreCall == call.op = "calculate_score"
LengthsMatch == Len(call.answers) = Len(questions[1])

\* the sum of the elements of a at the positions in S
RECURSIVE SumOver(_, _)
SumOver(a, S) ==
    IF S = {} THEN 0
    ELSE LET i == CHOOSE j \in S : TRUE IN a[i] + SumOver(a, S \ {i})

\* C1: for a rule whose method is 'sum' and an answer list as long as the
\* stored question list, calculate_score returns the sum of the answers.
C1_SumRuleReturnsSum ==
    (ScoreCall /\ IsObjectRule /\ TheRule.doc.method = JStr("sum") /\ LengthsMatch)
        => (call.exc = "none" /\ call.ret = SumOver(call.answers, DOMAIN call.answers))

C1_Witness ==
    /\ ScoreCall /\ IsObjectRule /\ TheRule.doc.method = JStr("sum") /\ LengthsMatch
    /\ call.answers = <<1, 2, 3>>
    /\ call.ret = 6

\* the reverse-flagged positions of an answer list, and the maximum option value
Flagged(a) ==
    IF TheRule.doc.reverse_questions.type = "absent" THEN {}
    ELSE TheRule.doc.reverse_questions.items \cap DOMAIN a
MaxOptionValue ==
    IF TheRule.doc.max_option_value.type = "absent" THEN 3
    ELSE TheRule.doc.max_option_value.n
ReverseRuleCall ==
    /\ ScoreCall /\ IsObjectRule /\ LengthsMatch
    /\ TheRule.doc.method = JStr("reverse")
    /\ TheRule.doc.reverse_questions.type \in {"absent", "list"}
    /\ TheRule.doc.max_option_value.type \in {"absent", "int"}

\* C2: for a rule whose method is 'reverse' and an answer list of matching
\* length, calculate_score returns the sum of (max_option_value - answer) over
\* the reverse-flagged questions plus the sum of the answers of the other
\* questions, max_option_value being 3 when the rule omits it.
C2_ReverseRuleReturnsWeightedSum ==
    ReverseRuleCall
        => /\ call.exc = "none"
           /\ call.ret = SumOver(call.answers, DOMAIN call.answers \ Flagged(call.answers))
                           + MaxOptionValue * Cardinality(Flagged(call.answers))
                           - SumOver(call.answers, Flagged(call.answers))

\* scenario B: reverse questions {3, 5}, maximum 3, answers [3,3,0,3,0] give 15
C2_Witness ==
    /\ ReverseRuleCall
    /\ TheRule.doc.reverse_questions = JIntList({3, 5})
    /\ TheRule.doc.max_option_value = JInt(3)
    /\ call.answers = ScenarioB
    /\ call.ret = 15

InterpretationCall == call.op = "get_interpretation"

\* C3: with thresholds at 13, 26 and 40, get_interpretation returns the text of
\* the band at 13 for score 10, the text of the band at 40 for score 35 and the
\* empty string for score 41.
C3_ScenarioCBands ==
    (InterpretationCall /\ IsObjectRule /\ TheRule.doc.thresholds = PSS10Thresholds)
        => /\ call.exc = "none"
           /\ call.score = 10 => call.text = "low"
           /\ call.score = 35 => call.text = "high"
           /\ call.score = 41 => call.text = ""

ScenarioACall ==
    /\ ScoreCall /\ IsObjectRule /\ TheRule.doc.method = JStr("sum")
    /\ Len(questions[1]) = 10
    /\ call.answers = ScenarioA

\* C4 as stated: for a test with 10 questions and a sum rule, calculate_score
\* on the answers [0,1,2,3,0,1,2,3,0,1] returns 17.
C4_ScenarioAReturns17 == ScenarioACall => call.ret = 17

\* C4 as amended: for a test with 10 questions and a sum rule, calculate_score
\* on the answers [0,1,2,3,0,1,2,3,0,1] returns 13.
C4_ScenarioAReturns13 == ScenarioACall => (call.exc = "none" /\ call.ret = 13)

C4_Witness == ScenarioACall /\ call.exc = "none"

\* C5: whatever the rule string holds, calculate_score, get_interpretation and
\* create_test_result return a value and let no exception escape.
C5_NoExceptionEscapes ==
    call.op \in {"calculate_score", "get_interpretation", "create_test_result"}
        => call.exc = "none"

\* C6: when the rule string is absent, empty, not JSON, or an object whose
\* 'method' is missing or is not 'reverse', calculate_score on an answer list
\* of matching length returns the plain sum of the answers.
C6_FallsBackToSum ==
    (/\ ScoreCall /\ LengthsMatch
     /\ \/ TheRule.text \in {"None", "empty", "garbage"}
        \/ IsObjectRule /\ TheRule.doc.method # JStr("reverse"))
        => (call.exc = "none" /\ call.ret = SumOver(call.answers, DOMAIN call.answers))

C6_Witness ==
    /\ ScoreCall /\ LengthsMatch
    /\ TheRule.text = "garbage"
    /\ call.answers = <<3, 1>>
    /\ call.ret = 4
    /\ call.log = "Error parsing interpretation rules"

\* C7: when the number of answers differs from the number of stored questions,
\* calculate_score returns 0 for every rule, raises nothing and reports the
\* count mismatch only (the rule is not evaluated).
C7_MismatchReturnsZero ==
    (ScoreCall /\ ~LengthsMatch)
        => (call.exc = "none" /\ call.ret = 0 /\ call.log = "Answer count mismatch")

C7_Witness ==
    /\ ScoreCall /\ ~LengthsMatch
    /\ TheRule.text = "json" /\ TheRule.doc.type = "list"
    /\ call.answers = <<3, 3>>
    /\ call.ret = 0

\* thresholds of the stored rule, all of them objects with an integer max_score
StoredItems ==
    IF TheRule.doc.thresholds.type = "absent" THEN <<>> ELSE TheRule.doc.thresholds.items
WellFormedThresholds ==
    /\ IsObjectRule
    /\ TheRule.doc.thresholds.type \in {"absent", "list"}
    /\ \A i \in DOMAIN StoredItems :
          StoredItems[i].type = "object" /\ StoredItems[i].max_score.type = "int"
\* the first threshold of the descending order: the earliest one of largest max_score
Largest ==
    CHOOSE i \in DOMAIN StoredItems :
        \A j \in DOMAIN StoredItems :
            \/ StoredItems[i].max_score.n > StoredItems[j].max_score.n
            \/ StoredItems[i].max_score.n = StoredItems[j].max_score.n /\ i <= j
TextOf(threshold) ==
    IF threshold.interpretation.type = "absent" THEN "" ELSE threshold.interpretation.s

\* C8: get_interpretation returns the interpretation of the first threshold, in
\* descending order of max_score, whose max_score is >= score (that is the
\* threshold of largest max_score when it is >= score), and the empty string
\* when no threshold qualifies, when the list is empty or missing, and when
\* the rule is absent, empty or not JSON.
C8_FirstOfDescendingOrder ==
    InterpretationCall
        => /\ TheRule.text \in {"None", "empty", "garbage"}
                => (call.exc = "none" /\ call.text = "")
           /\ WellFormedThresholds
                => /\ call.exc = "none"
                   /\ call.text =
                        IF StoredItems = <<>> THEN ""
                        ELSE IF StoredItems[Largest].max_score.n >= call.score
                             THEN TextOf(StoredItems[Largest])
                        ELSE ""

C8_Witness ==
    /\ InterpretationCall /\ WellFormedThresholds
    /\ StoredItems = <<Threshold(JInt(13), JStr("low")), Threshold(JInt(40), JStr("high"))>>
    /\ call.score = 10
    /\ call.text = "high"

SameArguments ==
    /\ call.op = "get_interpretation"
    /\ call'.test_id = call.test_id
    /\ call'.score = call.score

Abs(x) == IF x < 0 THEN -x ELSE x

\* C10: calculate_percentage(score, max_score) is the hundredth nearest to
\* score / max_score * 100 when max_score > 0 and is 0 when max_score is 0.
C10_PercentageIsRounded ==
    call.op = "calculate_percentage"
        => /\ call.max_score > 0
                => 2 * Abs(call.ret * call.max_score - call.score * 10000) <= call.max_score
           /\ call.max_score = 0 => call.ret = 0

C10_Witness ==
    /\ call.op = "calculate_percentage"
    /\ call.score = 2 /\ call.max_score = 3
    /\ call.ret = 6667

\* the positions of an answer list whose question carries a reverse-flagged number
FlaggedByNumber(a) ==
    {i \in DOMAIN a : questions[1][i] \in TheRule.doc.reverse_questions.items}

\* C11: under a reverse rule the answer to question number n contributes
\* (max_option_value - answer) exactly when n is in reverse_questions, for
\* every set of question numbers that is unique per test, contiguous or not.
C11_ReversedByQuestionNumber ==
    (ReverseRuleCall /\ TheRule.doc.reverse_questions.type = "list")
        => /\ call.exc = "none"
           /\ call.ret = SumOver(call.answers, DOMAIN call.answers \ FlaggedByNumber(call.answers))
                           + MaxOptionValue * Cardinality(FlaggedByNumber(call.answers))
                           - SumOver(call.answers, FlaggedByNumber(call.answers))

\* the logs of a user dated in the closed window [today - days, today]
WindowLogs(user_id, days) ==
    {i \in DOMAIN stress_logs.rows :
        /\ stress_logs.rows[i].user_id = user_id
        /\ today - days <= stress_logs.rows[i].date
        /\ stress_logs.rows[i].date <= today}
AverageStressCall == call.op = "get_average_stress"

\* C12: get_average_stress(user, days) is the mean stress level of exactly the
\* logs of that user dated in [today - days, today]; logs dated earlier or
\* after today have no influence.
C12_AveragesClosedWindow ==
    (AverageStressCall /\ WindowLogs(call.user_id, call.days) # {})
        => /\ ~call.none
           /\ call.total * Cardinality(WindowLogs(call.user_id, call.days))
                = SumLevels(stress_logs.rows, WindowLogs(call.user_id, call.days)) * call.count

\* C13: get_average_stress returns None exactly when no log of the user falls
\* in the window and a number otherwise, and the dashboard shows the no-data
\* message exactly when the average it fetched is None.
C13_NoDataIsDistinguished ==
    /\ AverageStressCall
          => /\ call.none <=> (WindowLogs(call.user_id, call.days) = {})
             /\ ~call.none => call.count > 0
    /\ call.op = "refresh"
          => (call.label.text = "message_no_data" <=> call.weekly_avg.none)

\* the results of a user, and the three of them created last
UserResults(user_id) == {i \in DOMAIN results : results[i].user_id = user_id}
MostRecent(user_id) ==
    {i \in UserResults(user_id) :
        Cardinality({j \in UserResults(user_id) : j > i}) < WarningResults}
RECURSIVE SumPercentages(_)
SumPercentages(ids) ==
    IF ids = {} THEN 0
    ELSE LET i == CHOOSE j \in ids : TRUE
         IN  results[i].percentage + SumPercentages(ids \ {i})
RefreshCalled == call.op = "refresh"

\* C14: the anxiety warning is shown only to a user with at least 3 results
\* and only when the mean of the percentages of exactly the 3 most recent
\* results exceeds 50%; that mean is the only average ever computed, and with
\* fewer than 3 results no average is computed and no warning is shown.
C14_WarningFromThreeMostRecent ==
    RefreshCalled
        => /\ Cardinality(UserResults(call.user_id)) < WarningResults
                => (~call.check.computed /\ ~call.check.warning)
           /\ call.check.computed
                => /\ call.check.count = WarningResults
                   /\ call.check.total = SumPercentages(MostRecent(call.user_id))
           /\ call.check.warning
                => /\ Cardinality(UserResults(call.user_id)) >= WarningResults
                   /\ SumPercentages(MostRecent(call.user_id))
                        > WarningPercent * 100 * WarningResults

\* a fourth, older result at 50% is left out and the warning is shown for
\* three results at 55%
C14_Witness ==
    /\ RefreshCalled
    /\ Cardinality(UserResults(call.user_id)) > WarningResults
    /\ call.check.warning
    /\ SumPercentages(UserResults(call.user_id)) - SumPercentages(MostRecent(call.user_id))
          = 5000
    /\ call.check.total = 3 * 5500

\* a call of a shaper; whether its text has a character in U+0600-U+06FF or
\* U+0750-U+077F; whether shaping was asked for and the libraries are there
ShaperCalled == call.op = "prepare_rtl_text"
InRanges(c) == (1536 <= c /\ c <= 1791) \/ (1872 <= c /\ c <= 1919)
HasRangeChar(text) == \E i \in DOMAIN text : InRanges(text[i])
ShapingRequested == call.renderer = "pdf" \/ call.reshape
ShapingAvailable ==
    env.RTL_SUPPORT /\ (call.renderer = "pdf" => env.has_persian_font)

\* C15: a shaper (PDF or Excel) returns its input unchanged for every text
\* when shaping is not requested, and also when the text has no character in
\* U+0600-U+06FF or U+0750-U+077F.
C15_UnchangedWithoutShaping ==
    (ShaperCalled /\ (~ShapingRequested \/ ~HasRangeChar(call.text)))
        => (call.exc = "none" /\ call.out = call.text)

\* the Excel shaper asked not to reshape a text it could reshape
C15_Witness ==
    /\ ShaperCalled /\ call.renderer = "excel" /\ ~call.reshape
    /\ env.RTL_SUPPORT /\ call.failing = "none"
    /\ call.text = <<1536, 65>>
    /\ call.out = call.text

\* C16: when shaping is requested and the text has a character of the
\* Arabic/Persian ranges, the result of every renderer's shaper is the
\* reshaped text put in visual order, get_display(reshape(text)).
C16_ReshapedThenReordered ==
    (ShaperCalled /\ ShapingRequested /\ ShapingAvailable /\ call.failing = "none"
        /\ HasRangeChar(call.text))
        => (call.exc = "none" /\ call.out = get_display(arabic_reshaper_reshape(call.text)))

\* an export with every library it needs in place and a destination that can be written
ExportCalled == call.op = "export"
LibraryPresent == IF call.operation = "excel_stress" THEN env.openpyxl ELSE env.reportlab

\* the library call named by failing is one the renderer's shaper makes
\* (the Excel shaper never calls get_display)
FailureStrikes ==
    call.failing = "reshape" \/ (call.renderer = "pdf" /\ call.failing = "get_display")

\* C17: when reshape or get_display raises, the shaper returns the original
\* text and raises nothing, and an export whose shaping fails still succeeds.
C17_ShapingFailureIsAbsorbed ==
    /\ (ShaperCalled /\ FailureStrikes)
          => (call.exc = "none" /\ call.out = call.text)
    /\ (ExportCalled /\ LibraryPresent /\ ~call.write_fails)
          => (call.exc = "none" /\ call.ret)

\* get_display raises on a reshaped text in the PDF shaper
C17_Witness ==
    /\ ShaperCalled /\ call.renderer = "pdf" /\ call.failing = "get_display"
    /\ env.RTL_SUPPORT /\ env.has_persian_font
    /\ call.text = <<1536, 1791>>
    /\ call.exc = "none" /\ call.out = call.text
    /\ call.log = "Error processing RTL text"

\* the kinds of the blocks of the exported document, in order
Kinds == [i \in DOMAIN call.document |-> call.document[i].kind]
StressBlocks == IF call.logs # <<>> THEN <<"stress_summary", "stress_table">> ELSE <<>>
AnxietyBlocks ==
    IF call.anxiety_results # <<>> THEN <<"anxiety_summary", "anxiety_table">> ELSE <<>>
PageBreak ==
    IF call.logs # <<>> /\ call.anxiety_results # <<>> THEN <<"page_break">> ELSE <<>>

\* C18: every composed report is the title block, the user-info block, then
\* (only with stress logs) the stress summary and the stress table, then (only
\* with anxiety results) the anxiety summary and the anxiety table, the
\* anxiety section after a page break when there is stress data as well.
C18_BlocksInFixedOrder ==
    (ExportCalled /\ call.exc = "none" /\ call.ret)
        => \/ Kinds = <<"title", "user_info">> \o StressBlocks \o PageBreak \o AnxietyBlocks
           \/ /\ call.logs = <<>>
              /\ Kinds = <<"title", "user_info">> \o <<"page_break">> \o AnxietyBlocks

\* C19: an export with no stress logs and no anxiety results returns True and
\* its document has the title block and the user-info block only, for the PDF
\* stress report, the PDF combined report and the Excel stress report.
C19_EmptyReportIsTitleAndUserInfo ==
    (ExportCalled /\ LibraryPresent /\ ~call.write_fails
        /\ call.logs = <<>> /\ call.anxiety_results = <<>>)
        => (call.exc = "none" /\ call.ret /\ Kinds = <<"title", "user_info">>)

\* C20: an export never raises; with its document library missing (reportlab
\* for PDF, openpyxl for Excel) or a destination that cannot be written it
\* returns False.
C20_FailureIsReturnedFalse ==
    ExportCalled
        => /\ call.exc = "none"
           /\ (~LibraryPresent \/ call.write_fails) => ~call.ret

\* C21: after an export that returned False the destination holds no partly
\* written document: either the whole document is written and True is
\* returned, or the destination is as it was before the export.
C21_FailedExportLeavesDestination ==
    [][(call.op = "pending" /\ call'.op = "export")
          => IF call'.ret THEN destination' = File(call'.document)
             ELSE destination' = destination]_vars

\* an export that returned True, and the table of a kind in its document
ExportSucceeded == ExportCalled /\ call.exc = "none" /\ call.ret
ExcelExport == call.operation = "excel_stress"
TableOf(kind) == CHOOSE b \in {call.document[i] : i \in DOMAIN call.document} : b.kind = kind
HasTable(kind) == \E i \in DOMAIN call.document : call.document[i].kind = kind

\* a text as the renderer's shaper leaves it, and the text a cell shows
ShapedText(text) ==
    IF ExcelExport THEN excel_prepare_rtl_text(env, text, TRUE, call.failing).text
    ELSE pdf_prepare_rtl_text(env, text, call.failing).text
CellText(cell) == IF cell.type = "int" THEN str(cell.value) ELSE cell.text

\* the notes of a log as its table cell shows them, before shaping
NotesShown(notes) ==
    LET given == IF notes = <<>> THEN <<45>> ELSE notes
    IN  IF ~ExcelExport /\ Len(given) > 50
        THEN [i \in 1..50 |-> IF i <= 47 THEN given[i] ELSE 46]
        ELSE given

\* C22: the PDF renderer cuts notes longer than 50 characters to their first
\* 47 characters followed by '...' before shaping them, and leaves notes of
\* 50 characters or fewer whole; the Excel renderer places the full notes.
C22_LongNotesAreCutInPdf ==
    (ExportSucceeded /\ call.logs # <<>>)
        => \A i \in DOMAIN call.logs :
              TableOf("stress_table").rows[i + 1][1].text
                  = ShapedText(NotesShown(call.logs[i].notes))

\* Persian notes of 51 characters in a PDF report: 50 characters are shown,
\* none of them one of the last four letters of the notes
C22_Witness ==
    /\ ExportSucceeded /\ ~ExcelExport /\ call.logs # <<>> /\ call.failing = "none"
    /\ call.logs[1].notes = NotesOf(51, 1569)
    /\ LET shown == TableOf("stress_table").rows[2][1].text
       IN  /\ Len(shown) = 50
           /\ \A c \in {1569 + 48, 1569 + 49, 1569 + 50, 1569 + 51} :
                 \A i \in DOMAIN shown : shown[i] \notin {c, 0 - c}

\* the Shamsi date a table shows for a day
DateShown(d) ==
    IF d = Date(2024, 3, 19) THEN <<49, 52, 48, 50, 47, 49, 50, 47, 50, 57>>
    ELSE <<49, 52, 48, 51, 47, 48, 49, 47, 48, 49>>
OrDash(text) == IF text = <<>> THEN <<45>> ELSE text
NumberOrDash(n) == IF n = 0 THEN <<45>> ELSE str(n)
PercentShown(p) == str(p \div 100) \o <<46>> \o (IF p % 100 < 10 THEN <<48>> ELSE <<>>)
                       \o str(p % 100) \o <<37>>

\* the texts of the cells of a row, the header texts a renderer puts, and
\* the rows the two tables are to have
RowTexts(row) == [j \in DOMAIN row |-> CellText(row[j])]
HeaderTexts(labels) ==
    [j \in DOMAIN labels |-> IF ExcelExport THEN labels[j]
                             ELSE pdf_prepare_rtl_text(env, labels[j], call.failing).text]
StressRowTexts(log) ==
    <<ShapedText(NotesShown(log.notes)), NumberOrDash(log.physical_activity),
      NumberOrDash(log.sleep_hours), str(log.stress_level), ShapedText(DateShown(log.date))>>
AnxietyRowTexts(result) ==
    <<ShapedText(OrDash(result.interpretation)), PercentShown(result.percentage),
      str(result.max_score), str(result.score), ShapedText(result.test_name),
      ShapedText(DateShown(result.date))>>
TableIs(kind, labels, records, texts(_)) ==
    LET rows == TableOf(kind).rows
    IN  /\ Len(rows) = 1 + Len(records)
        /\ RowTexts(rows[1]) = HeaderTexts(labels)
        /\ \A i \in DOMAIN records : RowTexts(rows[i + 1]) = texts(records[i])

\* C23: each detail table is one header row and then exactly one data row per
\* input record in input order, its cells in the column order notes,
\* activity, sleep, stress level, date (stress logs) and interpretation,
\* percentage, max score, score, test name, date (anxiety results).
C23_OneRowPerRecordInColumnOrder ==
    ExportSucceeded
        => /\ HasTable("stress_table") <=> call.logs # <<>>
           /\ HasTable("anxiety_table") <=> call.anxiety_results # <<>>
           /\ call.logs # <<>>
                 => TableIs("stress_table",
                            <<NotesLabel, ActivityLabel, SleepLabel, LevelLabel, DateLabel>>,
                            call.logs, StressRowTexts)
           /\ call.anxiety_results # <<>>
                 => TableIs("anxiety_table",
                            <<InterpretationLabel, PercentageLabel, MaxScoreLabel, ScoreLabel,
                              TestNameLabel, DateLabel>>,
                            call.anxiety_results, AnxietyRowTexts)

\* a combined report of two different logs and two different results
C23_Witness ==
    /\ ExportSucceeded /\ call.operation = "pdf_combined"
    /\ Len(call.logs) = 2 /\ call.logs[1] # call.logs[2]
    /\ Len(call.anxiety_results) = 2 /\ call.anxiety_results[1] # call.anxiety_results[2]
    /\ Len(TableOf("stress_table").rows) = 3
    /\ Len(TableOf("anxiety_table").rows) = 3
    /\ TableOf("stress_table").rows[2][4].text = str(call.logs[1].stress_level)
    /\ TableOf("anxiety_table").rows[3][3].text = str(call.anxiety_results[2].max_score)

\* a call of create_test_result that has returned; whether its INSERT raised
CreateCalled == call'.op = "create_test_result"
InsertFailed == call'.log = "Error creating test result"
NewIds == DOMAIN results' \ DOMAIN results
OthersKept == \A i \in DOMAIN results : i \in DOMAIN results' /\ results'[i] = results[i]

\* the result a call is to store for a test of the database
ComputedRow(id) ==
    LET test == tests[call'.test_id]
        score == calculate_score(test, questions[call'.test_id], call'.answers).ret
    IN  /\ results'[id].score = score
        /\ results'[id].max_score = test.max_score
        /\ results'[id].percentage = calculate_percentage(score, test.max_score)
        /\ results'[id].interpretation = get_interpretation(test, score).text
        /\ get_result_by_id(results', id).answers = call'.answers

\* C24: each create_test_result for an existing test (whose INSERT goes
\* through) stores exactly one new result, with the score, max_score,
\* percentage and interpretation computed from the answers and the test, and
\* with answers that read back equal to the submitted list; a call for an
\* unknown test id returns None and stores nothing; the existing results are
\* unchanged in both cases.
C24_CreateStoresOneComputedResult ==
    [][CreateCalled
          => /\ OthersKept
             /\ IF call'.test_id \in DOMAIN tests
                THEN ~InsertFailed
                        => /\ call'.exc = "none" /\ ~call'.none
                           /\ NewIds = {call'.ret}
                           /\ ComputedRow(call'.ret)
                ELSE call'.exc = "none" /\ call'.none /\ NewIds = {}]_vars

\* the stored results other than one keep every field
KeptExcept(result_id) ==
    /\ DOMAIN results' = DOMAIN results \ {result_id}
    /\ \A i \in DOMAIN results' : results'[i] = results[i]

\* C25: after any sequence of create_test_result and delete_result calls,
\* delete_result(id) removes exactly the result with that id and returns True
\* if and only if it existed, every other stored result keeps all its
\* fields, and no operation changes the fields of a result once created.
C25_DeleteRemovesExactlyOne ==
    [][/\ \A id \in 1..MaxResults :
             DeleteResult(id)
                => /\ KeptExcept(id)
                   /\ call'.exc = "none"
                   /\ call'.ret = 1 <=> id \in DOMAIN results
       /\ \A i \in DOMAIN results \cap DOMAIN results' : results'[i] = results[i]
       /\ call'.op # "delete_result" => DOMAIN results \subseteq DOMAIN results']_vars

\* the first of two stored results has just been deleted and the second is there
C25_Witness ==
    /\ call.op = "delete_result" /\ call.ret = 1
    /\ DOMAIN results = {2}
    /\ results[2].id = 2
    /\ next_id = 3

\* a create_test_result for the stored test whose INSERT went through
CreatedCall ==
    /\ call.op = "create_test_result" /\ call.test_id \in DOMAIN tests
    /\ call.log # "Error creating test result"

\* the score of the answers of the call under the stored rule, whatever
\* their values
FormulaScore ==
    IF IsObjectRule /\ TheRule.doc.method = JStr("reverse")
    THEN SumOver(call.answers, DOMAIN call.answers \ Flagged(call.answers))
           + MaxOptionValue * Cardinality(Flagged(call.answers))
           - SumOver(call.answers, Flagged(call.answers))
    ELSE SumOver(call.answers, DOMAIN call.answers)

\* the interpretation of the call's score does not resolve: the rule is
\* absent, it does not parse, or no threshold of it reaches the score
RuleAbsent == TheRule.text \in {"None", "empty"}
RuleUnparseable == TheRule.text = "garbage"
NoThresholdMatches ==
    /\ IsObjectRule
    /\ TheRule.doc.thresholds.type = "list"
    /\ \A i \in DOMAIN TheRule.doc.thresholds.items :
          LET t == TheRule.doc.thresholds.items[i]
          IN  t.type = "object" /\ t.max_score.type = "int" /\ FormulaScore > t.max_score.n

\* C26: a failure to resolve the interpretation (rule absent, unparseable,
\* or no matching threshold) never blocks result creation: create_test_result
\* still stores the result, with an empty interpretation, and returns its id.
C26_UnresolvedInterpretationStillStores ==
    (CreatedCall /\ LengthsMatch /\ (RuleAbsent \/ RuleUnparseable \/ NoThresholdMatches))
        => /\ call.exc = "none" /\ ~call.none
           /\ call.ret \in DOMAIN results
           /\ results[call.ret].id = call.ret
           /\ results[call.ret].interpretation = ""
           /\ get_result_by_id(results, call.ret).answers = call.answers

\* answers in range score 6 under the one-band rule, above its only threshold 5
C26_Witness ==
    /\ CreatedCall /\ TheRule = LowBandRule
    /\ call.answers = <<3, 0>>
    /\ NoThresholdMatches
    /\ call.ret = 2 /\ DOMAIN results = {1, 2}
    /\ results[2].score = 6 /\ results[2].interpretation = ""
    /\ results[1].interpretation = "low"

\* C27: calculate_score applies no range check to answer values: an answer
\* outside its question's option range is scored by the same formula as one
\* inside, so the score and the percentage derived from it can exceed the
\* maximum or go below 0 (a reversed answer above max_option_value
\* contributes a negative amount).
C27_OutOfRangeAnswersAreScored ==
    /\ (ScoreCall /\ LengthsMatch) => (call.exc = "none" /\ call.ret = FormulaScore)
    /\ (CreatedCall /\ LengthsMatch)
          => /\ call.exc = "none" /\ call.ret \in DOMAIN results
             /\ LET row == results[call.ret]
                    off == row.percentage * row.max_score - FormulaScore * 10000
                IN  /\ row.score = FormulaScore
                    /\ 2 * off <= row.max_score /\ 0 - row.max_score <= 2 * off

\* the reversed answer 7 of question 2 contributes 3 - 7: the stored score
\* is -5 and the percentage -83.33
C27_Witness ==
    /\ CreatedCall /\ TheRule = LowBandRule
    /\ call.answers = <<-1, 7>>
    /\ call.ret \in DOMAIN results
    /\ results[call.ret].score = -5
    /\ results[call.ret].percentage = -8333

\* a level outside 1..10
OutOfRange(level) == level < 1 \/ level > 10

\* C28: after any sequence of create_log, update_log and delete_log calls
\* every stored stress log has a level between 1 and 10 inclusive; a create
\* or an update with a level outside that range is rejected (None / False)
\* and leaves the store unchanged.
C28_StoredLevelsStayInRange ==
    /\ [](\A i \in DOMAIN stress_logs.rows : ~OutOfRange(stress_logs.rows[i].stress_level))
    /\ [][/\ \A lv \in LevelValues, e \in BOOLEAN :
                (OutOfRange(lv) /\ CreateLog(1, lv, today, e))
                   => (call'.exc = "none" /\ call'.none /\ stress_logs' = stress_logs)
          /\ \A id \in 1..MaxLogs, kw \in LevelUpdates :
                ("stress_level" \in DOMAIN kw /\ OutOfRange(kw["stress_level"])
                    /\ UpdateLog(id, kw))
                   => (call'.exc = "none" /\ ~call'.none /\ call'.ret = 0
                         /\ stress_logs' = stress_logs)]_vars

\* an update to a level out of range was refused after a log was created
\* and raised to level 10
C28_Witness ==
    /\ call.op = "update_log" /\ call.ret = 0 /\ call.log = "Invalid stress level"
    /\ prev.op = "update_log" /\ prev.ret = 1
    /\ 1 \in DOMAIN stress_logs.rows
    /\ stress_logs.rows[1].stress_level = 10

\* the questions of the dialog that have a recorded answer
Answered(d) == {i \in DOMAIN d.answers : d.answers[i] # NoAnswer}

\* C29: in the question dialog, after any sequence of select-option, Next,
\* Previous and Finish events, the current question index stays within
\* [0, n-1], every question before the current one has a recorded answer,
\* Next never advances without a selected option, and the dialog is accepted
\* only when all n questions have an answer, so the answer list handed to
\* scoring has length n and no missing entry.
C29_DialogHandsOverCompleteAnswers ==
    /\ [](dialog.state # "closed"
            => /\ 0 <= dialog.current_question_index
               /\ dialog.current_question_index <= dialog.n - 1
               /\ Len(dialog.answers) = dialog.n
               /\ 1..dialog.current_question_index \subseteq Answered(dialog)
               /\ dialog.state \in {"accepted", "saved"} => Answered(dialog) = 1..dialog.n)
    /\ [][(dialog.state = "open"
             /\ dialog'.current_question_index > dialog.current_question_index)
            => /\ dialog.checked # NoAnswer
               /\ dialog'.current_question_index = dialog.current_question_index + 1
               /\ dialog'.answers[dialog.current_question_index + 1] = dialog.checked
               /\ ~call'.warned]_vars
    /\ [](call.op = "create_test_result"
            => /\ Len(call.answers) = Len(questions[1])
               /\ \A i \in DOMAIN call.answers : call.answers[i] \in 0..MaxOption)

\* three questions answered 1, 0, 1, the dialog accepted by Finish and the
\* answers stored as they were given
C29_Witness ==
    /\ dialog.state = "saved" /\ dialog.n = 3
    /\ call.op = "create_test_result" /\ call.answers = <<1, 0, 1>>
    /\ call.ret \in DOMAIN results
    /\ get_result_by_id(results, call.ret).answers = <<1, 0, 1>>
    /\ prev.op = "dialog" /\ prev.event = "finish" /\ ~prev.warned

\* C30: for one exercise timer dialog, under any interleaving of timer
\* ticks, Stop clicks, Cancel and window close, at most one session is ever
\* created, it is created only while the timer is running, its duration is
\* max(1, ceil(elapsed_seconds / 60)) minutes, and once the timer has been
\* stopped the elapsed-seconds counter no longer changes.
C30_OneSessionOfRoundedDuration ==
    /\ [](Len(sessions) <= 1)
    /\ [][sessions' # sessions
            => /\ timer.state = "open" /\ timer.is_running /\ ~timer'.is_running
               /\ Len(sessions') = Len(sessions) + 1
               /\ LET d == sessions'[Len(sessions')].duration
                      e == timer.elapsed_seconds
                  IN  /\ d >= 1
                      /\ 60 * d >= e
                      /\ d > 1 => 60 * (d - 1) < e]_vars
    /\ [][(timer.state # "none" /\ ~timer.is_running)
            => /\ timer'.elapsed_seconds = timer.elapsed_seconds
               /\ ~timer'.is_running]_vars

\* stopped in the 61st second: a session of 2 minutes, the dialog accepted
C30_Witness ==
    /\ timer.state = "accepted" /\ ~timer.is_running
    /\ timer.elapsed_seconds = 61
    /\ Len(sessions) = 1
    /\ sessions[1].duration = 2 /\ sessions[1].completion_status = "completed"
    /\ timer.session_id = 1

====
